---- MODULE Spec2Model ----
(***************************************************************************)
(* Admission control of the Claude Telegram bot: the QueryQueue of         *)
(* query-queue.ts in front of the single ClaudeSession of session.ts.      *)
(*                                                                         *)
(* A request is one call of QueryQueue.sendMessage.  Requests arrive in    *)
(* the order 1, 2, 3, ...; a request's number is its arrival rank.         *)
(* Every await of the handlers is a point where other handlers may run,    *)
(* so every handler is cut into one action per synchronous stretch.        *)
(***************************************************************************)
EXTENDS Naturals, Integers, Sequences, FiniteSets, TLC

\* config values as the queue's test suite sets them
MAX_CONCURRENT_QUERIES == 2
MAX_QUERY_QUEUE_SIZE == 3

\* number of sendMessage calls in a behaviour
MaxRequests == 6

Requests == 1..MaxRequests

\* a null reference (no abort controller, no dequeued query)
Null == 0

VARIABLES
    queue,            \* QueryQueue.queue: the waiting requests, head first
    processing,       \* QueryQueue.processing
    activeQueryCount, \* ClaudeSession.activeQueryCount
    isQueryRunning,   \* session.isQueryRunning
    abortController,  \* session.abortController: the run that created it, or Null
    stopRequested,    \* session.stopRequested
    st,               \* where each request is
    err,              \* the error a request's promise was rejected with
    queuedPos,        \* position told to the "queued" status callback (0: never told)
    started,          \* number of session.sendMessageStreaming calls made for a request
    nextId,           \* the next request to arrive
    immediates,       \* pending setImmediate(() => this.processNext()) callbacks
    lastPN,           \* how the latest processNext call went
    clearReturn       \* value returned by the latest clear()

\* the clock and the status reads of the queue
VARIABLES
    now,              \* Date.now()
    queuedAt,         \* QueuedQuery.queuedAt of each request
    status            \* what the latest getStatus() / isFull read returned

statusVars == <<now, queuedAt, status>>

\* one run of the session and its rendering
VARIABLES
    eng,              \* the locals of sendMessageStreaming and where it is
    sessionId,        \* session.sessionId
    state,            \* the StreamingState of the status callback
    chat,             \* the messages in the chat, by handle
    transport,        \* the transport calls made (reply, edit, delete)
    calls,            \* the status callback invocations made
    events            \* the blocks handled by the run, with the segment
                      \* and time at which each was handled and, for a
                      \* text block, the "text" callback it led to (or 0)

runVars == <<eng, sessionId, state, chat, transport, calls, events>>

\* the text message handler
VARIABLES
    hd                \* handleText: where it is, the attempt it is making,
                      \* and what its attempts ended with

\* the rate limiter
VARIABLES
    clock,            \* Date.now() as the rate limiter reads it, in ms
    buckets,          \* RateLimiter.buckets: user -> bucket (or NoBucket)
    allowed,          \* per user, the times at which check() returned [true]
    checked           \* the latest check(): its userId and what it returned

rateVars == <<clock, buckets, allowed, checked>>

\* the text messages of one chat and the pending list of its session
VARIABLES
    pd                \* how many messages arrived, where the handleText call
                      \* of each is, session.pendingMessages, the runs in
                      \* progress and the order in which runs were started

\* the calls of sendMessageStreaming made on the one session object
VARIABLES
    runPc,            \* where each call of sendMessageStreaming is
    handle            \* per call: whether it resumed a session, how often
                      \* it assigned sessionId, the interrupt flag at its
                      \* start, the stop() and markInterrupt() calls made
                      \* during it, the error it threw and the notice its
                      \* handler sent; the session.kill() calls made

\* the PID lock file and the bot processes that start
VARIABLES
    lock              \* the lock file's content, where each process is in
                      \* acquirePidLock and the pid it read from the file

\* the update-deduplication middleware
VARIABLES
    dedup             \* processedUpdateIds, updateIdQueue and a log of the
                      \* updates delivered (and whether each was passed on)

\* what the smaller specifications are about
procVars == <<runPc, handle, lock, dedup>>

\* the rate limiter and the message handlers
sideVars == <<rateVars, pd, procVars>>

\* more of the session
VARIABLES
    lastError,        \* session.lastError is set (not null)
    stopReturn,       \* what the latest session.stop() returned
    interruptFlag     \* the flag of markInterrupt / consumeInterruptFlag

\* the rate limiter and what the latest run and stop() left on the session
restVars == <<sideVars, lastError, stopReturn, interruptFlag>>

\* the state outside the admission queue and the session flags
nonQueueVars == <<statusVars, runVars, hd, restVars>>

queueOnlyVars == <<queue, processing, activeQueryCount, st, err, queuedPos,
                   started, nextId, immediates, lastPN, clearReturn>>

queueVars == <<queueOnlyVars, isQueryRunning, abortController, stopRequested>>

vars == <<queueVars, nonQueueVars>>

sessionVars == <<isQueryRunning, abortController, stopRequested>>

----------------------------------------------------------------------------
\* Errors

NoError == [kind |-> "none", current |-> 0, max |-> 0]

\* `Queue full (${this.queue.length}/${MAX_QUERY_QUEUE_SIZE}). Try again later.`
QueueFullError(q) ==
    [kind |-> "Queue full", current |-> Len(q), max |-> MAX_QUERY_QUEUE_SIZE]

\* new Error("Queue cleared")
QueueClearedError == [kind |-> "Queue cleared", current |-> 0, max |-> 0]

\* whatever session.sendMessageStreaming rethrows
RunError == [kind |-> "run failed", current |-> 0, max |-> 0]

----------------------------------------------------------------------------
\* QueryQueue helpers

\* off by one: a full queue still accepts one more entry
isFullStrict(q) == Len(q) > MAX_QUERY_QUEUE_SIZE

\* get isFull()
isFull(q) == Len(q) >= MAX_QUERY_QUEUE_SIZE

\* off by one: the last free slot is never used for an immediate dispatch
canExecuteBelowLastSlot(count) == count < MAX_CONCURRENT_QUERIES - 1

\* sendMessage: "Check if we can execute immediately"
canExecuteImmediately(count) == count < MAX_CONCURRENT_QUERIES

\* sendMessage: this.queue.push({...})
push(q, r) == Append(q, r)

\* the position read before the push (0-based)
positionZeroBased(q) == Len(q) - 1

\* sendMessage: const position = this.queue.length (read after the push)
position(q) == Len(q)

\* the guard against concurrent processing left out
neverProcessing(proc) == FALSE

\* processNext: if (this.processing) return
alreadyProcessing(proc) == proc

\* processNext: nothing queued, or no free slot
cannotRun(q, count) == Len(q) = 0 \/ count >= MAX_CONCURRENT_QUERIES

\* pop() instead of shift(): the newest entry is taken
pop(q) == [query |-> q[Len(q)], rest |-> SubSeq(q, 1, Len(q) - 1)]

\* processNext: const query = this.queue.shift()
shift(q) == [query |-> Head(q), rest |-> Tail(q)]

\* The synchronous head of processNext, up to its first await: the two
\* early returns, processing = true, the shift and the call of the
\* "queue_start" status callback.
processNextHead(proc, q, count) ==
    IF alreadyProcessing(proc)
    THEN [queue |-> q, processing |-> proc, query |-> Null, outcome |-> "busy"]
    ELSE IF cannotRun(q, count)
    THEN [queue |-> q, processing |-> proc, query |-> Null, outcome |-> "nothing"]
    ELSE [queue |-> shift(q).rest, processing |-> TRUE,
          query |-> shift(q).query, outcome |-> "dequeued"]

\* the count read after this.queue = []
clearCountAfterReset(q) == Len(<<>>)

\* clear: const count = this.queue.length
clearCount(q) == Len(q)

\* (variant) clear() also rejects the entries processNext has dequeued
clearRejectedWithDispatched(q) ==
    {q[i] : i \in 1..Len(q)} \cup
    {r \in Requests : queuedPos[r] > 0 /\ st[r] \in {"queue_start", "running"}}

\* clear: for (const query of this.queue) query.reject(...)
clearRejected(q) == {q[i] : i \in 1..Len(q)}

\* ClaudeSession.activeQueryCount counts the runs in flight: a run is counted
\* from the synchronous start of sendMessageStreaming ...
countAtRunStart(count) == count + 1

\* ... until the run ends
countAtRunEnd(count) == count - 1

\* The end of a run emits "queryFinished" once the run is no longer counted;
\* the listener of the queue calls processNext.
onQueryFinished(proc, q, count) == processNextHead(proc, q, count)

\* st after processNextHead took query pn.query (if any)
withDequeued(s, pn) ==
    IF pn.query = Null THEN s ELSE [s EXCEPT ![pn.query] = "queue_start"]

----------------------------------------------------------------------------
\* Queue status

\* the number of clock ticks modelled
MaxClock == 3

\* oldestWaitMs: null
NullWait == -1

\* nothing has been read yet
NoStatus ==
    [snapshot |-> [queued |-> 0, maxSize |-> 0, oldestWaitMs |-> NullWait],
     isFull |-> FALSE]

\* (variant) a head entry that has waited 0 ms is reported as null
getStatusFalsyWait(q, qa, t) ==
    [queued |-> Len(q),
     maxSize |-> MAX_QUERY_QUEUE_SIZE,
     oldestWaitMs |-> IF Len(q) > 0 /\ t - qa[q[1]] # 0
                      THEN t - qa[q[1]] ELSE NullWait]

\* QueryQueue.getStatus: q is this.queue, qa the queuedAt of each entry and
\* t is Date.now().  A queue entry is an object, so this.queue[0] is truthy
\* whenever the queue is non-empty.
getStatus(q, qa, t) ==
    [queued |-> Len(q),
     maxSize |-> MAX_QUERY_QUEUE_SIZE,
     oldestWaitMs |-> IF Len(q) > 0 THEN t - qa[q[1]] ELSE NullWait]

StatusInit ==
    /\ now = 0
    /\ queuedAt = [r \in Requests |-> 0]
    /\ status = NoStatus

----------------------------------------------------------------------------
\* Text, and the status callback that renders a run into the chat
\* (createStatusCallback and StreamingState)

\* the number of backend events modelled in one run
MaxEvents == 3

\* segment ids: currentSegmentId starts at 0 and grows by one per closed segment
Segs == 0..MaxEvents

\* no message (a missing Map entry)
NoMsg == 0

\* Date.now() is a Unix time in milliseconds: far more than 500 above the 0
\* that lastTextUpdate and a missing lastEditTimes entry stand for
Epoch == 1000

dateNow(t) == Epoch + t

\* A text is modelled by the events it is made of (ids, in order), its
\* length in characters, and the number of "&" characters in it.
\* The empty string:
EmptyText == [ids |-> <<>>, len |-> 0, amp |-> 0, cut |-> FALSE]

\* string concatenation (+=, join(""))
concat(c, b) ==
    [ids |-> c.ids \o b.ids, len |-> c.len + b.len, amp |-> c.amp + b.amp,
     cut |-> FALSE]

\* content.length > 4000 ? content.slice(0, 4000) + "..." : content
display(c) ==
    IF c.len > 4000 THEN [c EXCEPT !.len = 4003, !.cut = TRUE] ELSE c

\* content.length > 500 ? content.slice(0, 500) + "..." : content
preview(c) ==
    IF c.len > 500 THEN [c EXCEPT !.len = 503, !.cut = TRUE] ELSE c

\* convertMarkdownToHtml on text whose only special characters are "&":
\* escapeHtml replaces each "&" by "&amp;", four characters more
convertMarkdownToHtml(c) == [c EXCEPT !.len = c.len + 4 * c.amp]

\* (variant) the full slices only
chunkCountFull(n) == n \div 4000

\* the number of slices of 4000 characters of a string of length n
\* (for (let i = 0; i < formatted.length; i += 4000))
chunkCount(n) == (n + 3999) \div 4000

\* c.slice(i, j): the characters from index i up to index j (or the end)
slice(c, i, j) ==
    [c EXCEPT !.len = (IF j < c.len THEN j ELSE c.len) -
                      (IF i < c.len THEN i ELSE c.len)]

\* new StreamingState()
NewStreamingState ==
    [textMessages |-> [s \in Segs |-> NoMsg],
     toolMessages |-> <<>>,
     lastEditTimes |-> [s \in Segs |-> 0]]

\* W is the StreamingState, the chat and the log of transport calls:
\* [state, chat, transport].  A message handle is the message's index in
\* the chat.  Each transport call is logged with the status callback
\* invocation (cause) that made it.

\* ctx.reply: a new message in the chat, unless the call fails
reply(W, kind, seg, content, part, cause, ok) ==
    [W EXCEPT
       !.chat = IF ok
                THEN Append(@, [kind |-> kind, seg |-> seg,
                                content |-> content, part |-> part,
                                alive |-> TRUE])
                ELSE @,
       !.transport = Append(@, [op |-> "reply",
                                msg |-> IF ok THEN Len(W.chat) + 1 ELSE NoMsg,
                                content |-> content, cause |-> cause,
                                ok |-> ok])]

\* ctx.api.editMessageText: fails on a deleted message
editMessageText(W, h, content, cause, ok) ==
    [W EXCEPT
       !.chat = IF ok /\ W.chat[h].alive
                THEN [@ EXCEPT ![h].content = content]
                ELSE @,
       !.transport = Append(@, [op |-> "edit", msg |-> h,
                                content |-> content, cause |-> cause,
                                ok |-> ok /\ W.chat[h].alive])]

\* ctx.api.deleteMessage
deleteMessage(W, h, cause, ok) ==
    [W EXCEPT
       !.chat = IF ok THEN [@ EXCEPT ![h].alive = FALSE] ELSE @,
       !.transport = Append(@, [op |-> "delete", msg |-> h,
                                content |-> EmptyText, cause |-> cause,
                                ok |-> ok /\ W.chat[h].alive])]

\* deleteMessage for each handle of a list, failures ignored
RECURSIVE deleteAll(_, _, _, _)
deleteAll(W, hs, cause, ok) ==
    IF hs = <<>> THEN W
    ELSE deleteAll(deleteMessage(W, Head(hs), cause, ok), Tail(hs), cause, ok)

\* ctx.reply(chunk) for the slices k..n of an oversized segment
RECURSIVE replyChunks(_, _, _, _, _, _)
replyChunks(W, seg, content, k, n, cause) ==
    IF k > n THEN W
    ELSE replyChunks(reply(W, "chunk", seg,
                           slice(content, (k - 1) * 4000, k * 4000),
                           k, cause, TRUE),
                     seg, content, k + 1, n, cause)

\* statusType "thinking" and "tool": a message tracked in toolMessages
statusEphemeral(W, content, cause, ok) ==
    LET W1 == reply(W, "tool", 0, content, 0, cause, ok)
    IN IF ok
       THEN [W1 EXCEPT !.state.toolMessages = Append(@, Len(W1.chat))]
       ELSE W1

\* now - lastEdit > 500
editElapsed(t, lastEdit) == t - lastEdit > 500

\* statusType "text"
statusText(W, content, seg, t, cause, ok) ==
    LET formatted == convertMarkdownToHtml(display(content))
    IN IF W.state.textMessages[seg] = NoMsg
       THEN LET W1 == reply(W, "text", seg, formatted, 0, cause, ok)
            IN IF ok
               THEN [W1 EXCEPT !.state.textMessages[seg] = Len(W1.chat),
                               !.state.lastEditTimes[seg] = t]
               ELSE reply(W1, "text", seg, formatted, 0, cause, FALSE)
       ELSE IF editElapsed(t, W.state.lastEditTimes[seg])
       THEN [editMessageText(W, W.state.textMessages[seg], formatted,
                             cause, ok)
               EXCEPT !.state.lastEditTimes[seg] = t]
       ELSE W

\* state.textMessages.has(segmentId)
segmentHasMessage(W, seg) == W.state.textMessages[seg] # NoMsg

\* statusType "segment_end"
statusSegmentEnd(W, content, seg, cause, ok) ==
    LET formatted == convertMarkdownToHtml(content)
        h == W.state.textMessages[seg]
    IN IF segmentHasMessage(W, seg) /\ content.len > 0
       THEN IF formatted.len <= 4096
            THEN editMessageText(W, h, formatted, cause, ok)
            ELSE LET W1 == deleteMessage(W, h, cause, ok)
                 IN IF ok
                    THEN replyChunks(W1, seg, formatted, 1,
                                     chunkCount(formatted.len), cause)
                    ELSE reply(reply(W1, "chunk", seg,
                                     slice(formatted, 0, 4000), 1, cause,
                                     FALSE),
                               "chunk", seg, slice(formatted, 0, 4000), 1,
                               cause, FALSE)
       ELSE W

RECURSIVE handlesFrom(_, _)
\* the handles in state.textMessages, from segment g on
handlesFrom(tm, g) ==
    IF g > MaxEvents THEN <<>>
    ELSE (IF tm[g] # NoMsg THEN <<tm[g]>> ELSE <<>>) \o handlesFrom(tm, g + 1)

\* (variant) "done" deletes the text messages as well
statusDoneWithText(W, cause, ok) ==
    deleteAll(deleteAll(W, W.state.toolMessages, cause, ok),
              handlesFrom(W.state.textMessages, 0), cause, ok)

\* statusType "done": the tool messages are deleted, the text messages stay
statusDone(W, cause, ok) == deleteAll(W, W.state.toolMessages, cause, ok)

\* a failed transport call that no inner try/catch of the callback handles:
\* the ctx.reply of "thinking" and "tool", the second ctx.reply for a new
\* segment, and the second ctx.reply for a slice of an oversized segment
escapes(W, statusType, content, seg, ok) ==
    /\ ~ok
    /\ CASE statusType \in {"thinking", "tool"} -> TRUE
         [] statusType = "text" -> ~segmentHasMessage(W, seg)
         [] statusType = "segment_end" ->
               /\ segmentHasMessage(W, seg) /\ content.len > 0
               /\ convertMarkdownToHtml(content).len > 4096
         [] OTHER -> FALSE

\* (variant) without the outer try/catch the escaped failure rejects
rejectsWhenEscaped(escaped) == escaped

\* the body of the callback is inside try { } catch (error)
\* { console.error(...) }: its promise never rejects
rejects(escaped) == FALSE

\* the callback made by createStatusCallback; it never rejects.  ok tells
\* whether the transport calls of this invocation succeed.
statusCallback(W, statusType, content, seg, t, cause, ok) ==
    CASE statusType = "thinking" ->
            statusEphemeral(W, preview(content), cause, ok)
      [] statusType = "tool" -> statusEphemeral(W, content, cause, ok)
      [] statusType = "text" -> statusText(W, content, seg, t, cause, ok)
      [] statusType = "segment_end" ->
            statusSegmentEnd(W, content, seg, cause, ok)
      [] statusType = "done" -> statusDone(W, cause, ok)
      [] OTHER -> W

----------------------------------------------------------------------------
\* One run of ClaudeSession.sendMessageStreaming, rendered by the status
\* callback

\* the number of status callback invocations whose transport calls fail
MaxFailures == 1

\* milliseconds between two readings of Date.now()
Gaps == {100, 600}

\* the content blocks the backend streams, one per event: thinking, a tool
\* invocation (allowed, the ask_user tool, or denied by the safety check,
\* with a reason or path that may hold the word "cancel"), text (short, or
\* longer than 20 characters) and the final result event
Blocks ==
    {[type |-> "thinking", tool |-> "none", len |-> 50, cancel |-> FALSE],
     [type |-> "tool_use", tool |-> "allowed", len |-> 0, cancel |-> FALSE],
     [type |-> "tool_use", tool |-> "ask_user", len |-> 0, cancel |-> FALSE],
     [type |-> "tool_use", tool |-> "denied", len |-> 0, cancel |-> FALSE],
     [type |-> "tool_use", tool |-> "denied", len |-> 0, cancel |-> TRUE],
     [type |-> "text", tool |-> "none", len |-> 10, cancel |-> FALSE],
     [type |-> "text", tool |-> "none", len |-> 30, cancel |-> FALSE],
     [type |-> "result", tool |-> "none", len |-> 0, cancel |-> FALSE]}

\* formatToolStatus(toolName, toolInput), `BLOCKED: ${reason}` and
\* `Access denied: ${filePath}`: a line of text
ToolText == [ids |-> <<>>, len |-> 40, amp |-> 0, cut |-> FALSE]

\* no error
NoThrow == [origin |-> "none", crash |-> FALSE, cancel |-> FALSE]

\* a rejection of the awaited status callback (a failed transport call)
TransportError == [origin |-> "transport", crash |-> FALSE, cancel |-> FALSE]

\* "Claude Code process exited with code 1"
CrashError == [origin |-> "crash", crash |-> TRUE, cancel |-> FALSE]

\* an error of the backend whose text holds "abort" or "cancel"
AbortError == [origin |-> "abort", crash |-> FALSE, cancel |-> TRUE]

\* any other failure of the backend
OtherError == [origin |-> "other", crash |-> FALSE, cancel |-> FALSE]

\* what the backend stream can throw
ProviderErrors == {CrashError, AbortError, OtherError}

\* new Error(`Unsafe command blocked: ${reason}`) and
\* new Error(`File access blocked: ${filePath}`): the text after the colon
\* is the model's own command or path
BlockedError(crash, cancel) ==
    [origin |-> "blocked", crash |-> crash, cancel |-> cancel]

\* the text of the block of event n
blockText(n, b) == [ids |-> <<n>>, len |-> b.len, amp |-> 0, cut |-> FALSE]

\* the locals of sendMessageStreaming before its try block (aborted: the
\* signal of the run's AbortController)
NewRun ==
    [pc |-> "streaming",
     responseParts |-> <<>>,
     currentSegmentId |-> 0,
     currentSegmentText |-> EmptyText,
     lastTextUpdate |-> 0,
     queryCompleted |-> FALSE,
     n |-> 0,
     pending |-> NoThrow,
     error |-> NoThrow,
     result |-> [kind |-> "none", text |-> EmptyText],
     failures |-> 0,
     aborted |-> FALSE]

\* no run has been made
NoRun == [NewRun EXCEPT !.pc = "idle"]

\* the rendering state as one record
World == [state |-> state, chat |-> chat, transport |-> transport]

\* the invocations cs, all finished
finished(cs) == [c \in 1..Len(cs) |-> [cs[c] EXCEPT !.done = TRUE]]

\* await statusCallback(type, content, segmentId): the invocation is
\* logged (denied: it reports a denied tool invocation; done: its promise
\* has settled) and rendered.  The invocations awaited before it in the
\* same step have finished.
call(X, statusType, content, seg, t, denied, ok) ==
    [W |-> statusCallback(X.W, statusType, content, seg, t,
                          Len(X.calls) + 1, ok),
     calls |-> Append(finished(X.calls),
                      [type |-> statusType, seg |-> seg, content |-> content,
                       denied |-> denied, done |-> FALSE]),
     rejected |-> X.rejected \/
                    rejects(escapes(X.W, statusType, content, seg, ok))]

\* the promise of an invocation has not settled
inFlight(cs) == \E c \in 1..Len(cs) : ~cs[c].done

\* (variant) the callback is not awaited: the run goes on at once
awaitsNothing(cs) == FALSE

\* the run is suspended in "await statusCallback(...)"
awaits(cs) == inFlight(cs)

\* (variant) stop() takes effect without a run in progress
stopAlways(running, controller) == TRUE

\* stop: if (this.isQueryRunning && this.abortController)
stopInEffect(running, controller) == running /\ controller # Null

\* (variant) each block replaces the segment text
replaceSegmentText(cur, blk) == blk

\* currentSegmentText += block.text
appendSegmentText(cur, blk) == concat(cur, blk)

\* now - lastTextUpdate > 500 && currentSegmentText.length > 20
textUpdateDue(t, last, text) == t - last > 500 /\ text.len > 20

RECURSIVE join(_)
\* responseParts.join("")
join(parts) ==
    IF parts = <<>> THEN EmptyText ELSE concat(Head(parts), join(Tail(parts)))

\* (variant) only the text of the last segment is returned
returnLastSegment(E) ==
    IF E.currentSegmentText.len > 0
    THEN [kind |-> "text", text |-> E.currentSegmentText]
    ELSE [kind |-> "placeholder", text |-> EmptyText]

\* return responseParts.join("") || "No response from Claude."
returnValue(E) ==
    IF join(E.responseParts).len > 0
    THEN [kind |-> "text", text |-> join(E.responseParts)]
    ELSE [kind |-> "placeholder", text |-> EmptyText]

\* the segment is closed when a tool starts: if (currentSegmentText) ...
closeSegment(XE, t, ok) ==
    IF XE.E.currentSegmentText.len > 0
    THEN [X |-> call(XE.X, "segment_end", XE.E.currentSegmentText,
                     XE.E.currentSegmentId, t, FALSE, ok),
          E |-> [XE.E EXCEPT !.currentSegmentId = @ + 1,
                             !.currentSegmentText = EmptyText]]
    ELSE XE

\* after the try block: the final segment_end, "done" and the return
afterTry(X, E, t, ok) ==
    LET X1 == IF E.currentSegmentText.len > 0
              THEN call(X, "segment_end", E.currentSegmentText,
                        E.currentSegmentId, t, FALSE, ok)
              ELSE X
    IN [X |-> call(X1, "done", EmptyText, 0, t, FALSE, ok),
        E |-> [E EXCEPT !.pc = "returned", !.result = returnValue(E)]]

\* the catch block: is the error e suppressed?
suppressed(e, E, stop) == e.cancel /\ (E.queryCompleted \/ stop)

\* the run leaves its try block, normally (e = NoThrow) or with the error e
leaveTry(X, E, e, t, ok) ==
    IF e = NoThrow \/ suppressed(e, E, stopRequested)
    THEN afterTry(X, E, t, ok)
    ELSE [X |-> X, E |-> [E EXCEPT !.pc = "threw", !.error = e]]

\* one block of an event is handled inside the loop
handleBlock(X, E, b, t, ok) ==
    CASE b.type = "thinking" ->
            [X |-> call(X, "thinking", blockText(E.n, b), 0, t, FALSE, ok),
             E |-> E]
      [] b.type = "tool_use" /\ b.tool = "denied" ->
            [X |-> call(X, "tool", ToolText, 0, t, TRUE, ok),
             E |-> [E EXCEPT !.pc = "denied",
                             !.pending = BlockedError(FALSE, b.cancel)]]
      [] b.type = "tool_use" /\ b.tool = "ask_user" ->
            closeSegment([X |-> X, E |-> E], t, ok)
      [] b.type = "tool_use" /\ b.tool = "allowed" ->
            LET c == closeSegment([X |-> X, E |-> E], t, ok)
            IN [X |-> call(c.X, "tool", ToolText, 0, t, FALSE, ok),
                E |-> c.E]
      [] b.type = "text" ->
            LET text == appendSegmentText(E.currentSegmentText,
                                          blockText(E.n, b))
                E1 == [E EXCEPT
                         !.responseParts = Append(@, blockText(E.n, b)),
                         !.currentSegmentText = text]
            IN IF textUpdateDue(dateNow(t), E.lastTextUpdate, text)
               THEN [X |-> call(X, "text", text, E.currentSegmentId,
                                dateNow(t), FALSE, ok),
                     E |-> [E1 EXCEPT !.lastTextUpdate = dateNow(t)]]
               ELSE [X |-> X, E |-> E1]
      [] b.type = "result" ->
            [X |-> X, E |-> [E EXCEPT !.queryCompleted = TRUE]]

RunInit ==
    /\ interruptFlag = FALSE
    /\ lastError = FALSE
    /\ stopReturn = "none"
    /\ eng = NoRun
    /\ state = NewStreamingState
    /\ chat = <<>>
    /\ transport = <<>>
    /\ calls = <<>>
    /\ events = <<>>
    /\ sessionId = Null

----------------------------------------------------------------------------
\* handleText: the retry loop around queryQueue.sendMessage

\* const MAX_RETRIES = 1
MAX_RETRIES == 1

\* the number of status callback invocations modelled in one attempt
MaxCallbacks == 3

\* the request was rejected by admission control: "Queue full (...)" or
\* "Queue cleared"
AdmissionError == [origin |-> "admission", crash |-> FALSE, cancel |-> FALSE]

\* what an attempt can fail with: a backend crash, a cancellation, a
\* tool invocation denied by the safety check (the error text ends with
\* the command's reason or the file path, which may hold any words), a
\* rejection by admission control, or another failure
AttemptErrors ==
    {CrashError, AbortError, OtherError, AdmissionError} \cup
    {BlockedError(c, a) : c \in BOOLEAN, a \in BOOLEAN}

\* const isClaudeCodeCrash = errorStr.includes("exited with code")
isClaudeCodeCrash(e) == e.crash

\* errorStr.includes("abort") || errorStr.includes("cancel")
isCancellation(e) == e.cancel

\* (variant) one retry more
canRetryAgain(e, attempt) == isClaudeCodeCrash(e) /\ attempt <= MAX_RETRIES

\* isClaudeCodeCrash && attempt < MAX_RETRIES
canRetry(e, attempt) == isClaudeCodeCrash(e) /\ attempt < MAX_RETRIES

\* session.markInterrupt(): the flag is set
markInterrupt(flag) == TRUE

\* session.consumeInterruptFlag(): the flag is returned and cleared
consumeInterruptFlag(flag) == [wasInterrupt |-> flag, flag |-> FALSE]

\* the notice the catch block sends for an error that is not retried
\* ("none": nothing is sent)
notice(e, wasInterrupt) ==
    IF isCancellation(e)
    THEN (IF wasInterrupt THEN "none" ELSE "stopped")
    ELSE IF isClaudeCodeCrash(e) THEN "crashed" ELSE "error"

\* the handler before a text message arrives
NoHandler ==
    [pc |-> "idle", attempt |-> 0, n |-> 0, seg |-> 0, open |-> 0,
     errors |-> <<>>, mark |-> 0]

\* the text of a notice handleText sends with ctx.reply
NoticeText == [ids |-> <<>>, len |-> 30, amp |-> 0, cut |-> FALSE]

\* the catch block's cleanup: every message tracked in state.toolMessages
\* and state.textMessages is deleted (failures are ignored)
cleanup(W) ==
    deleteAll(deleteAll(W, W.state.toolMessages, 0, TRUE),
              handlesFrom(W.state.textMessages, 0), 0, TRUE)

HandlerInit == hd = NoHandler

----------------------------------------------------------------------------
\* The rate limiter (RateLimiter, a token bucket per user)

\* the defaults: 20 requests per window of 60 seconds
RATE_LIMIT_REQUESTS == 20
RATE_LIMIT_WINDOW == 60

\* the users modelled
MaxUsers == 2
Users == 1..MaxUsers

\* the number of allowed requests modelled, and the clock: it advances in
\* steps of Step milliseconds, MaxTicks times
MaxChecks == 22
MaxTicks == 2
Step == 1500

\* tokens is a fraction: it is counted in units of 1/TokenUnit token, the
\* amount that one millisecond refills (refillRate is RATE_LIMIT_REQUESTS /
\* RATE_LIMIT_WINDOW tokens per second), so that every value is an integer
TokenUnit == (RATE_LIMIT_WINDOW * 1000) \div RATE_LIMIT_REQUESTS

\* this.maxTokens = RATE_LIMIT_REQUESTS
maxTokens == RATE_LIMIT_REQUESTS * TokenUnit

\* this.buckets.get(userId) is undefined
NoBucket == [tokens |-> -1, lastUpdate |-> -1]

\* no check() was made yet
NoCheck == [userId |-> 0, allowed |-> FALSE, retryAfter |-> -1]

\* check: tokens = min(maxTokens, tokens + elapsed * refillRate),
\* lastUpdate = now
refill(b, t) ==
    [tokens |-> IF b.tokens + (t - b.lastUpdate) > maxTokens
                THEN maxTokens
                ELSE b.tokens + (t - b.lastUpdate),
     lastUpdate |-> t]

\* RateLimiter.check(userId) at time t (with RATE_LIMIT_ENABLED): the new
\* buckets and the returned [allowed, retryAfter] (retryAfter in ms)
check(bs, userId, t) ==
    LET bucket == IF bs[userId] = NoBucket
                  THEN [tokens |-> maxTokens, lastUpdate |-> t]
                  ELSE bs[userId]
        filled == refill(bucket, t)
    IN IF filled.tokens >= TokenUnit
       THEN [buckets |-> [bs EXCEPT ![userId] =
                            [filled EXCEPT !.tokens = @ - TokenUnit]],
             allowed |-> TRUE, retryAfter |-> -1]
       ELSE [buckets |-> [bs EXCEPT ![userId] = filled],
             allowed |-> FALSE, retryAfter |-> TokenUnit - filled.tokens]

RateInit ==
    /\ clock = 0
    /\ buckets = [u \in Users |-> NoBucket]
    /\ allowed = [u \in Users |-> <<>>]
    /\ checked = NoCheck

----------------------------------------------------------------------------
\* handleText and the pending list of the session

\* the text messages modelled, numbered in the order of their arrival
MaxMessages == 5
Messages == 1..MaxMessages

\* session.addPendingMessage(message): the message is added at the end
addPendingMessage(list, m) == Append(list, m)

\* session.getPendingMessages()[0] and session.removePendingMessage(id)
removePendingMessage(list) == [text |-> Head(list), rest |-> Tail(list)]

\* no handleText call was made
NoMessages ==
    [arrived |-> 0,
     pc |-> [m \in Messages |-> "none"],
     cur |-> [m \in Messages |-> 0],
     pendingMessages |-> <<>>,
     running |-> {},
     sent |-> <<>>,
     wasPending |-> {},
     failed |-> {}]

PendingInit == pd = NoMessages

----------------------------------------------------------------------------
\* The PID lock

\* the bot processes that start on one lock path; a process's pid is its
\* number
MaxProcs == 3
Procs == 1..MaxProcs

\* no lock file
NoFile == 0

LockInit ==
    lock = [file |-> NoFile,
            pc |-> [p \in Procs |-> "new"],
            existingPid |-> [p \in Procs |-> NoFile]]

----------------------------------------------------------------------------
\* Update deduplication

\* DEDUP_WINDOW is 1000 in the program; the model uses a small window
DEDUP_WINDOW == 3

\* the update ids Telegram delivers, and how many deliveries are followed
MaxUpdateIds == 5
UpdateIds == 1..MaxUpdateIds
MaxDeliveries == 6

\* (variant) the queue is cut when it has reached the window
overWindowEarly(n) == n >= DEDUP_WINDOW

\* updateIdQueue.length > DEDUP_WINDOW
overWindow(n) == n > DEDUP_WINDOW

\* while (updateIdQueue.length > DEDUP_WINDOW) { shift; delete }
RECURSIVE evict(_)
evict(d) ==
    IF overWindow(Len(d.updateIdQueue))
    THEN evict([d EXCEPT
                  !.updateIdQueue = Tail(@),
                  !.processedUpdateIds = @ \ {Head(d.updateIdQueue)}])
    ELSE d

\* the middleware for an update with the id updateId
middleware(d, updateId) ==
    IF updateId \in d.processedUpdateIds
    THEN [d EXCEPT !.log = Append(@, [id |-> updateId, passed |-> FALSE])]
    ELSE evict([d EXCEPT
                  !.processedUpdateIds = @ \cup {updateId},
                  !.updateIdQueue = Append(@, updateId),
                  !.log = Append(@, [id |-> updateId, passed |-> TRUE])])

DedupInit ==
    dedup = [processedUpdateIds |-> {}, updateIdQueue |-> <<>>, log |-> <<>>]

----------------------------------------------------------------------------
\* Overlapping calls of sendMessageStreaming

MaxRuns == 2
Runs == 1..MaxRuns

\* the session ids the events of the backend carry (Null: none)
MaxIds == 2
SessionIds == 1..MaxIds

\* the calls of session.kill() followed
MaxKills == 1

OverlapInit ==
    /\ runPc = [i \in Runs |-> "idle"]
    /\ handle = [resumed |-> [i \in Runs |-> FALSE],
                 captures |-> [i \in Runs |-> 0],
                 stale |-> [i \in Runs |-> FALSE],
                 stopped |-> [i \in Runs |-> FALSE],
                 marked |-> [i \in Runs |-> FALSE],
                 error |-> [i \in Runs |-> NoThrow],
                 notice |-> [i \in Runs |-> "none"],
                 kills |-> 0]

----------------------------------------------------------------------------
Init ==
    /\ queue = <<>>
    /\ processing = FALSE
    /\ activeQueryCount = 0
    /\ isQueryRunning = FALSE
    /\ abortController = Null
    /\ stopRequested = FALSE
    /\ st = [r \in Requests |-> "new"]
    /\ err = [r \in Requests |-> NoError]
    /\ queuedPos = [r \in Requests |-> 0]
    /\ started = [r \in Requests |-> 0]
    /\ nextId = 1
    /\ immediates = 0
    /\ lastPN = "none"
    /\ clearReturn = 0
    /\ StatusInit
    /\ RunInit
    /\ HandlerInit
    /\ RateInit
    /\ PendingInit
    /\ OverlapInit
    /\ LockInit
    /\ DedupInit

\* session.sendMessageStreaming from its entry to its first await: the run
\* of request r is now in flight on the one session object.
sendMessageStreamingStart(r) ==
    /\ abortController' = r
    /\ isQueryRunning' = TRUE
    /\ stopRequested' = FALSE
    /\ activeQueryCount' = countAtRunStart(activeQueryCount)
    /\ started' = [started EXCEPT ![r] = @ + 1]

\* QueryQueue.sendMessage, immediate branch
SendImmediate(r) ==
    /\ canExecuteImmediately(activeQueryCount)
    /\ sendMessageStreamingStart(r)
    /\ st' = [st EXCEPT ![r] = "running"]
    /\ UNCHANGED <<queue, err, queuedPos, queuedAt>>

\* QueryQueue.sendMessage, queue full branch
SendRejected(r) ==
    /\ ~canExecuteImmediately(activeQueryCount)
    /\ isFull(queue)
    /\ st' = [st EXCEPT ![r] = "rejected"]
    /\ err' = [err EXCEPT ![r] = QueueFullError(queue)]
    /\ UNCHANGED <<queue, queuedPos, queuedAt, activeQueryCount, started,
                   sessionVars>>

\* QueryQueue.sendMessage, enqueue branch
SendQueued(r) ==
    /\ ~canExecuteImmediately(activeQueryCount)
    /\ ~isFull(queue)
    /\ queue' = push(queue, r)
    /\ queuedAt' = [queuedAt EXCEPT ![r] = now]
    /\ queuedPos' = [queuedPos EXCEPT ![r] = position(queue')]
    /\ st' = [st EXCEPT ![r] = "queued"]
    /\ UNCHANGED <<err, activeQueryCount, started, sessionVars>>

\* QueryQueue.sendMessage
SendMessage ==
    /\ nextId <= MaxRequests
    /\ nextId' = nextId + 1
    /\ \/ SendImmediate(nextId)
       \/ SendRejected(nextId)
       \/ SendQueued(nextId)
    /\ UNCHANGED <<processing, immediates, lastPN, clearReturn>>
    /\ UNCHANGED <<now, status, runVars, hd, restVars>>

\* A run ends: the finally block of sendMessageStreaming, and the
\* "queryFinished" listener, which calls processNext.  The promise of an
\* immediately dispatched run is the run's own promise: it settles with the
\* run's outcome and touches no queue state, so it is recorded here.  The
\* promise of a queued request is settled by processNext when it resumes.
RunFinished(r, ok) ==
    /\ st[r] = "running"
    /\ isQueryRunning' = FALSE
    /\ abortController' = Null
    /\ activeQueryCount' = countAtRunEnd(activeQueryCount)
    /\ LET pn == onQueryFinished(processing, queue, activeQueryCount')
           s1 == [st EXCEPT ![r] =
                    IF queuedPos[r] > 0
                    THEN (IF ok THEN "ended_ok" ELSE "ended_error")
                    ELSE (IF ok THEN "resolved" ELSE "rejected")]
       IN /\ queue' = pn.queue
          /\ processing' = pn.processing
          /\ lastPN' = pn.outcome
          /\ st' = withDequeued(s1, pn)
    /\ err' = [err EXCEPT ![r] =
                 IF queuedPos[r] = 0 /\ ~ok THEN RunError ELSE @]
    /\ UNCHANGED <<stopRequested, queuedPos, started, nextId, immediates,
                   clearReturn>>
    /\ UNCHANGED nonQueueVars

\* processNext resumes after the awaited "queue_start" callback (its failure
\* is ignored) and calls session.sendMessageStreaming for the dequeued query
ProcessNextExecute(r) ==
    /\ st[r] = "queue_start"
    /\ sendMessageStreamingStart(r)
    /\ st' = [st EXCEPT ![r] = "running"]
    /\ UNCHANGED <<queue, processing, err, queuedPos, nextId, immediates,
                   lastPN, clearReturn>>
    /\ UNCHANGED nonQueueVars

\* (variant) the promise is resolved whatever the run ended with
settleResolved(ended) == [st |-> "resolved", err |-> NoError]

\* query.resolve(result) after the run returned, query.reject(error) after
\* it threw
settle(ended) ==
    IF ended = "ended_ok"
    THEN [st |-> "resolved", err |-> NoError]
    ELSE [st |-> "rejected", err |-> RunError]

\* processNext resumes after the awaited run: query.resolve / query.reject,
\* then the finally block
\* the finally block schedules nothing
neverRescheduled(q, n) == n

\* processNext, finally: if (this.queue.length > 0) setImmediate(...)
rescheduled(q, n) == IF Len(q) > 0 THEN n + 1 ELSE n

ProcessNextFinally(r) ==
    /\ st[r] \in {"ended_ok", "ended_error"}
    /\ queuedPos[r] > 0
    /\ st' = [st EXCEPT ![r] = settle(st[r]).st]
    /\ err' = [err EXCEPT ![r] = settle(st[r]).err]
    /\ processing' = FALSE
    /\ immediates' = rescheduled(queue, immediates)
    /\ UNCHANGED <<queue, activeQueryCount, sessionVars, queuedPos, started,
                   nextId, lastPN, clearReturn>>
    /\ UNCHANGED nonQueueVars

\* a callback scheduled by setImmediate runs processNext
ImmediateFires ==
    /\ immediates > 0
    /\ immediates' = immediates - 1
    /\ LET pn == processNextHead(processing, queue, activeQueryCount)
       IN /\ queue' = pn.queue
          /\ processing' = pn.processing
          /\ lastPN' = pn.outcome
          /\ st' = withDequeued(st, pn)
    /\ UNCHANGED <<activeQueryCount, sessionVars, err, queuedPos, started,
                   nextId, clearReturn>>
    /\ UNCHANGED nonQueueVars

\* QueryQueue.clear
Clear ==
    /\ clearReturn' = clearCount(queue)
    /\ st' = [r \in Requests |->
                IF r \in clearRejected(queue) THEN "rejected" ELSE st[r]]
    /\ err' = [r \in Requests |->
                IF r \in clearRejected(queue) THEN QueueClearedError ELSE err[r]]
    /\ queue' = <<>>
    /\ UNCHANGED <<processing, activeQueryCount, sessionVars, queuedPos,
                   started, nextId, immediates, lastPN>>
    /\ UNCHANGED nonQueueVars

Next ==
    \/ SendMessage
    \/ \E r \in Requests, ok \in BOOLEAN : RunFinished(r, ok)
    \/ \E r \in Requests : ProcessNextExecute(r)
    \/ \E r \in Requests : ProcessNextFinally(r)
    \/ ImmediateFires
    \/ Clear

Spec == Init /\ [][Next]_vars

TypeOK ==
    /\ queue \in Seq(Requests)
    /\ processing \in BOOLEAN
    /\ activeQueryCount \in Nat
    /\ st \in [Requests -> {"new", "queued", "queue_start", "running",
                            "ended_ok", "ended_error", "resolved", "rejected"}]
    /\ nextId \in 1..(MaxRequests + 1)

----------------------------------------------------------------------------
\* Properties

\* the runs in flight on the session
RunsInFlight == {r \in Requests : st[r] = "running"}

\* the requests processNext has dequeued and not yet settled
InProcessNext ==
    {r \in Requests : queuedPos[r] > 0 /\
        st[r] \in {"queue_start", "running", "ended_ok", "ended_error"}}

\* request r arrives (sendMessage is called for it) in this step
Arrives(r) == st[r] = "new" /\ st'[r] # "new"

\* a run of request r starts in this step
RunStarts(r) == started'[r] > started[r]

\* the run of request r completes in this step
RunCompletes(r) == st[r] = "running" /\ st'[r] # "running"

\* C1: the number of backend runs in flight never exceeds
\* MAX_CONCURRENT_QUERIES, whatever the interleaving of sendMessage,
\* processNext and run completions.
C1_InFlightWithinCap == activeQueryCount <= MAX_CONCURRENT_QUERIES

\* C2: a session never has two overlapping runs: at most one run of
\* sendMessageStreaming is in progress on the session object at any time.
C2_SessionSingleFlight == Cardinality(RunsInFlight) <= 1

\* C3: queued entries are dispatched in FIFO order: when the run of a queued
\* entry B starts, every entry A enqueued before B and not removed by
\* clear() has already had its run started.
C3_QueuedFIFO ==
    [][\A b \in Requests :
          (RunStarts(b) /\ queuedPos[b] > 0) =>
             \A a \in 1..(b - 1) :
                (queuedPos[a] > 0 /\ err[a].kind # "Queue cleared")
                   => started[a] >= 1]_vars

C3_Witness ==
    \E a, b \in Requests :
        /\ a < b
        /\ queuedPos[a] > 0 /\ queuedPos[b] > 0
        /\ started[a] = 1 /\ started[b] = 1

\* C4: dispatch order is strict arrival order: a request that arrives while
\* the queue is non-empty is never started ahead of the waiting entries, so
\* an arriving request starts its run immediately only when the queue is empty.
C4_NoOvertaking ==
    [][\A r \in Requests :
          (Arrives(r) /\ RunStarts(r)) => queue = <<>>]_vars

\* C5: at the cap with a full queue, sendMessage rejects with "Queue full
\* (current/max)", leaves the queue as it is, starts no run and sends no
\* "queued" notification.
C5_QueueFullRejects ==
    [][\A r \in Requests :
          (/\ Arrives(r)
           /\ activeQueryCount >= MAX_CONCURRENT_QUERIES
           /\ Len(queue) = MAX_QUERY_QUEUE_SIZE)
          => /\ st'[r] = "rejected"
             /\ err'[r] = [kind |-> "Queue full", current |-> Len(queue),
                           max |-> MAX_QUERY_QUEUE_SIZE]
             /\ queue' = queue
             /\ started' = started
             /\ activeQueryCount' = activeQueryCount
             /\ queuedPos' = queuedPos]_vars

C5_Witness ==
    \E r \in Requests :
        /\ st[r] = "rejected"
        /\ err[r].kind = "Queue full"
        /\ err[r].current = MAX_QUERY_QUEUE_SIZE
        /\ Len(queue) = MAX_QUERY_QUEUE_SIZE

\* C6: at the cap with free queue space, sendMessage appends exactly one
\* entry at the tail and tells the "queued" callback the entry's 1-based
\* position, the queue length right after the append; the k-th request
\* enqueued into an empty queue is told k.
C6_EnqueueReportsPosition ==
    [][\A r \in Requests :
          (/\ Arrives(r)
           /\ activeQueryCount >= MAX_CONCURRENT_QUERIES
           /\ Len(queue) < MAX_QUERY_QUEUE_SIZE)
          => /\ queue' = Append(queue, r)
             /\ queuedPos'[r] = Len(queue) + 1
             /\ \A o \in Requests \ {r} : queuedPos'[o] = queuedPos[o]
             /\ st'[r] = "queued"
             /\ started' = started]_vars

C6_Witness ==
    /\ Len(queue) = MAX_QUERY_QUEUE_SIZE
    /\ \A i \in 1..Len(queue) : queuedPos[queue[i]] = i

\* C7: N <= MAX_CONCURRENT_QUERIES requests submitted with nothing in flight
\* are all dispatched immediately and none is enqueued: a request that
\* arrives below the cap starts its run at once and leaves the queue alone,
\* and while no more than MAX_CONCURRENT_QUERIES requests have arrived every
\* one of them has been started and the queue is empty.
C7_ImmediateBelowCap ==
    /\ [](nextId - 1 <= MAX_CONCURRENT_QUERIES =>
            /\ queue = <<>>
            /\ \A r \in 1..(nextId - 1) : started[r] = 1 /\ queuedPos[r] = 0)
    /\ [][\A r \in Requests :
            (Arrives(r) /\ activeQueryCount < MAX_CONCURRENT_QUERIES)
            => /\ RunStarts(r)
               /\ st'[r] = "running"
               /\ queue' = queue
               /\ queuedPos'[r] = 0]_vars

C7_Witness ==
    /\ nextId - 1 = MAX_CONCURRENT_QUERIES
    /\ \A r \in 1..MAX_CONCURRENT_QUERIES : st[r] = "running" /\ queuedPos[r] = 0
    /\ queue = <<>>

\* C8: whenever a run completes while the queue is non-empty and the
\* in-flight count is below the cap, the oldest queued entry is dispatched
\* in response to that completion.
C8_CompletionDispatchesHead ==
    [][\A r \in Requests :
          (/\ RunCompletes(r)
           /\ queue # <<>>
           /\ activeQueryCount' < MAX_CONCURRENT_QUERIES)
          => st'[Head(queue)] = "queue_start"]_vars

\* C9: processNext is reentrant-safe: every queued entry is started at most
\* once, and at most one dequeued entry is in the hands of processNext at any
\* time, also when a completion calls processNext while an earlier call is
\* still in progress.
C9_NoDoubleDispatch ==
    /\ \A r \in Requests : started[r] <= 1
    /\ Cardinality(InProcessNext) <= 1
    /\ InProcessNext # {} => processing

C9_Witness ==
    /\ lastPN = "busy"
    /\ processing
    /\ queue # <<>>
    /\ activeQueryCount < MAX_CONCURRENT_QUERIES
    /\ Cardinality(InProcessNext) = 1

\* C10: clear() rejects every entry that is in the queue with "Queue
\* cleared", leaves the queue empty and returns the number of entries it
\* rejected.
C10_ClearRejectsAll ==
    [][(\/ clearReturn' # clearReturn
        \/ \E r \in Requests : err[r].kind # "Queue cleared" /\
                               err'[r].kind = "Queue cleared")
       => /\ queue' = <<>>
          /\ clearReturn' = Len(queue)
          /\ \A r \in Requests :
                IF \E i \in 1..Len(queue) : queue[i] = r
                THEN st'[r] = "rejected" /\ err'[r].kind = "Queue cleared"
                ELSE st'[r] = st[r] /\ err'[r] = err[r]]_vars

C10_Witness ==
    /\ clearReturn >= 2
    /\ queue = <<>>
    /\ Cardinality({r \in Requests : err[r].kind = "Queue cleared"}) = clearReturn

\* the requests whose run has been dispatched and whose promise is not settled
Dispatched ==
    {r \in Requests :
        st[r] \in {"queue_start", "running", "ended_ok", "ended_error"}}

\* this step is a call of clear()
ClearStep ==
    \/ clearReturn' # clearReturn
    \/ \E r \in Requests : err[r].kind # "Queue cleared" /\
                           err'[r].kind = "Queue cleared"

\* C11: clear() does not affect runs that were already dispatched: a
\* request whose run was started (immediately, or after processNext removed
\* it from the queue) is never rejected with "Queue cleared"; a clear() step
\* leaves every dispatched request, the number of runs in flight and the
\* processing flag as they were; and the promise of a dispatched request
\* still settles with the outcome of its own run.
C11_ClearLeavesDispatched ==
    /\ [](\A r \in Requests :
            (started[r] >= 1 \/ r \in Dispatched)
               => err[r].kind # "Queue cleared")
    /\ [][ClearStep =>
            /\ \A r \in Dispatched :
                  st'[r] = st[r] /\ err'[r] = err[r] /\ started'[r] = started[r]
            /\ activeQueryCount' = activeQueryCount
            /\ processing' = processing
            /\ sessionVars' = sessionVars]_vars
    /\ [][\A r \in Requests :
            /\ (st[r] = "running" /\ queuedPos[r] = 0 /\ st'[r] # st[r])
                  => \/ st'[r] = "resolved" /\ err'[r] = NoError
                     \/ st'[r] = "rejected" /\ err'[r] = RunError
            /\ (st[r] = "running" /\ queuedPos[r] > 0 /\ st'[r] # st[r])
                  => st'[r] \in {"ended_ok", "ended_error"}
            /\ (st[r] = "ended_ok" /\ st'[r] # st[r])
                  => st'[r] = "resolved" /\ err'[r] = NoError
            /\ (st[r] = "ended_error" /\ st'[r] # st[r])
                  => st'[r] = "rejected" /\ err'[r] = RunError]_vars

\* a request was rejected by clear() while an immediately dispatched run and
\* an entry already removed from the queue by processNext were in flight
C11_Witness ==
    \E a, d, c \in Requests :
        /\ err[c].kind = "Queue cleared"
        /\ queuedPos[a] = 0 /\ st[a] = "running"
        /\ queuedPos[d] > 0 /\ d < c /\ st[d] \in {"queue_start", "running"}

\* the promise of request r is settled
Settled(r) == st[r] \in {"resolved", "rejected"}

\* C29: every promise returned by sendMessage for a queued request is
\* settled exactly once: once settled it never changes; it is settled
\* either by clear() while the request waits in the queue, with "Queue
\* cleared", or after the request's own run has ended, with that run's
\* outcome; and a queued request whose run has ended is still held by the
\* processNext call that dequeued it, which settles it.
C29_SettledExactlyOnce ==
    /\ [][\A r \in Requests :
            /\ Settled(r) => st'[r] = st[r] /\ err'[r] = err[r]
            /\ (queuedPos[r] > 0 /\ ~Settled(r) /\ Settled(r)')
                  => \/ /\ st[r] = "queued"
                        /\ st'[r] = "rejected"
                        /\ err'[r] = QueueClearedError
                     \/ /\ st[r] = "ended_ok"
                        /\ st'[r] = "resolved" /\ err'[r] = NoError
                     \/ /\ st[r] = "ended_error"
                        /\ st'[r] = "rejected" /\ err'[r] = RunError]_vars
    /\ [](\A r \in Requests :
            st[r] \in {"ended_ok", "ended_error"}
               => queuedPos[r] > 0 /\ processing /\ started[r] = 1)

\* of three queued requests one was resolved after its run returned, one
\* was rejected after its run threw, and one was rejected by clear()
C29_Witness ==
    \E a, b, c \in Requests :
        /\ queuedPos[a] > 0 /\ st[a] = "resolved" /\ started[a] = 1
        /\ queuedPos[b] > 0 /\ st[b] = "rejected" /\ err[b] = RunError
        /\ queuedPos[c] > 0 /\ st[c] = "rejected"
        /\ err[c] = QueueClearedError /\ started[c] = 0

\* C31: the queue never holds more than MAX_QUERY_QUEUE_SIZE entries, in any
\* state reached by sendMessage, processNext and clear.
C31_QueueBounded == Len(queue) <= MAX_QUERY_QUEUE_SIZE

\* the queue is full, and a request was rejected because it was
C31_Witness ==
    /\ Len(queue) = MAX_QUERY_QUEUE_SIZE
    /\ \E r \in Requests : err[r].kind = "Queue full"

\* The queue when clear() is not called, every started run ends and every
\* scheduled continuation (the rest of processNext after an await, a
\* setImmediate callback) runs.
NextNoClear ==
    \/ SendMessage
    \/ \E r \in Requests, ok \in BOOLEAN : RunFinished(r, ok)
    \/ \E r \in Requests : ProcessNextExecute(r)
    \/ \E r \in Requests : ProcessNextFinally(r)
    \/ ImmediateFires

Fairness ==
    /\ \A r \in Requests : WF_vars(\E ok \in BOOLEAN : RunFinished(r, ok))
    /\ \A r \in Requests : WF_vars(ProcessNextExecute(r))
    /\ \A r \in Requests : WF_vars(ProcessNextFinally(r))
    /\ WF_vars(ImmediateFires)

SpecFair == Init /\ [][NextNoClear]_vars /\ Fairness

\* C30: no starvation: when every started run finishes, each finish
\* triggers processNext, finitely many requests arrive and clear() is not
\* called, every queued entry is eventually dispatched.
C30_NoStarvation ==
    \A r \in Requests : (st[r] = "queued") ~> (started[r] >= 1)

\* a queued entry was dispatched although the completion that freed its
\* slot found processNext busy
C30_Witness ==
    \E r \in Requests :
        /\ queuedPos[r] = MAX_QUERY_QUEUE_SIZE
        /\ started[r] = 1
        /\ lastPN = "busy"

----------------------------------------------------------------------------
\* Reading the queue status while requests arrive and the clock advances

\* the clock advances
Tick ==
    /\ now < MaxClock
    /\ now' = now + 1
    /\ UNCHANGED <<queueVars, queuedAt, status, runVars, hd, restVars>>

\* a caller reads queryQueue.getStatus() and queryQueue.isFull
GetStatus ==
    /\ status' = [snapshot |-> getStatus(queue, queuedAt, now),
                  isFull |-> isFull(queue)]
    /\ UNCHANGED <<queueVars, now, queuedAt, runVars, hd, restVars>>

NextStatus ==
    \/ SendMessage
    \/ Clear
    \/ Tick
    \/ GetStatus

SpecStatus == Init /\ [][NextStatus]_vars

\* C12: getStatus() is a read-only snapshot: a step that reads the status
\* changes no queue state, reports queued equal to the queue length, maxSize
\* equal to MAX_QUERY_QUEUE_SIZE and oldestWaitMs equal to the time the head
\* entry has waited, which is null exactly when the queue is empty; isFull
\* is true exactly when the queue length has reached MAX_QUERY_QUEUE_SIZE.
C12_StatusSnapshot ==
    [][status' # status =>
         /\ queueVars' = queueVars
         /\ now' = now /\ queuedAt' = queuedAt
         /\ status'.snapshot.queued = Len(queue)
         /\ status'.snapshot.maxSize = MAX_QUERY_QUEUE_SIZE
         /\ (status'.snapshot.oldestWaitMs = NullWait) <=> (queue = <<>>)
         /\ queue # <<>> =>
               status'.snapshot.oldestWaitMs = now - queuedAt[Head(queue)]
         /\ status'.isFull <=> (Len(queue) >= MAX_QUERY_QUEUE_SIZE)]_vars

\* the status was read while the head entry had waited 0 ms, and the queue
\* was full
C12_Witness ==
    /\ status.snapshot.queued = 3
    /\ status.snapshot.oldestWaitMs = 0
    /\ status.isFull
    /\ Len(queue) = 3

----------------------------------------------------------------------------
\* The steps of a run

\* whether the transport calls of a step may fail
Outcomes == IF eng.failures < MaxFailures THEN BOOLEAN ELSE {TRUE}

\* this.lastError = String(error).slice(0, 100) before the catch block
\* rethrows; this.lastError = null after the try block
lastErrorAfter(E, last) ==
    CASE E.pc = "threw" -> TRUE
      [] E.pc = "returned" -> FALSE
      [] OTHER -> last

\* the step's result r = [X, E] becomes the next state; a rejection of an
\* awaited status callback is thrown by the await
Becomes(r, ok) ==
    /\ state' = r.X.W.state
    /\ chat' = r.X.W.chat
    /\ transport' = r.X.W.transport
    /\ calls' = r.X.calls
    /\ eng' = [r.E EXCEPT
                 !.failures =
                    IF ~ok /\ r.X.W.transport # transport THEN @ + 1 ELSE @,
                 !.pc = IF r.X.rejected THEN "threw" ELSE @,
                 !.error = IF r.X.rejected THEN TransportError ELSE @]
    /\ lastError' = lastErrorAfter(r.E, lastError)

\* the finally block
Finally ==
    /\ isQueryRunning' = FALSE
    /\ abortController' = Null

Here == [W |-> World, calls |-> calls, rejected |-> FALSE]

\* sendMessageStreaming is called: the statements before the try block
RunStart ==
    /\ eng.pc = "idle"
    /\ eng' = NewRun
    /\ abortController' = 1
    /\ isQueryRunning' = TRUE
    /\ stopRequested' = FALSE
    /\ UNCHANGED <<queueOnlyVars, hd, restVars, statusVars, state, chat,
                   transport, calls, events, sessionId>>

\* the backend delivers an event: the loop body, or the break after stop()
ReceiveEvent(b, gap, ok) ==
    /\ eng.pc = "streaming"
    /\ ~awaits(calls)
    /\ eng.n < MaxEvents
    /\ now' = IF b.type = "text" /\ ~stopRequested THEN now + gap ELSE now
    /\ IF stopRequested
       THEN /\ Becomes(afterTry(Here, eng, dateNow(now'), ok), ok)
            /\ Finally
            /\ UNCHANGED <<sessionId, events>>
       ELSE LET E == [eng EXCEPT !.n = @ + 1]
                r == handleBlock(Here, E, b, now', ok)
            IN /\ Becomes(r, ok)
               /\ sessionId' = IF sessionId = Null THEN 1 ELSE sessionId
               /\ events' =
                    Append(events,
                           [type |-> b.type, tool |-> b.tool, len |-> b.len,
                            seg |-> E.currentSegmentId,
                            at |-> dateNow(now'),
                            from |-> Len(calls) + 1,
                            to |-> Len(r.X.calls),
                            call |-> IF b.type = "text" /\
                                        Len(r.X.calls) > Len(calls)
                                     THEN Len(r.X.calls) ELSE 0])
               /\ UNCHANGED <<isQueryRunning, abortController>>
    /\ UNCHANGED <<queueOnlyVars, hd, sideVars, stopReturn, interruptFlag, stopRequested, queuedAt, status>>

\* the awaited "BLOCKED" / "Access denied" callback has returned: the throw
ThrowBlocked(ok) ==
    /\ eng.pc = "denied"
    /\ ~awaits(calls)
    /\ Becomes(leaveTry(Here, eng, eng.pending, dateNow(now), ok), ok)
    /\ Finally
    /\ UNCHANGED <<queueOnlyVars, hd, sideVars, stopReturn, interruptFlag, stopRequested, statusVars, sessionId,
                   events>>

\* the stream ends: the loop is left normally
StreamEnds(ok) ==
    /\ eng.pc = "streaming"
    /\ ~awaits(calls)
    /\ Becomes(leaveTry(Here, eng, NoThrow, dateNow(now), ok), ok)
    /\ Finally
    /\ UNCHANGED <<queueOnlyVars, hd, sideVars, stopReturn, interruptFlag, stopRequested, statusVars, sessionId,
                   events>>

\* the stream throws
StreamThrows(e, ok) ==
    /\ eng.pc = "streaming"
    /\ ~awaits(calls)
    /\ Becomes(leaveTry(Here, eng, e, dateNow(now), ok), ok)
    /\ Finally
    /\ UNCHANGED <<queueOnlyVars, hd, sideVars, stopReturn, interruptFlag, stopRequested, statusVars, sessionId,
                   events>>

\* the promise of the awaited status callback settles
CallbackReturns ==
    /\ inFlight(calls)
    /\ calls' = finished(calls)
    /\ UNCHANGED <<queueVars, statusVars, eng, sessionId, state, chat,
                   transport, events, hd, restVars>>

\* what handleText passes to and gets back from a transport call or the
\* status callback
HandlerWorld(W) ==
    /\ state' = W.state
    /\ chat' = W.chat
    /\ transport' = W.transport

\* the assignments of session.stop()
stop ==
    IF stopInEffect(isQueryRunning, abortController)
    THEN /\ stopRequested' = TRUE
         /\ eng' = [eng EXCEPT !.aborted = TRUE]
         /\ stopReturn' = "true"
    ELSE /\ stopReturn' = "false"
         /\ UNCHANGED <<stopRequested, eng>>

\* session.stop(), called by a stop request
Stop ==
    /\ stop
    /\ UNCHANGED <<queueOnlyVars, isQueryRunning, abortController,
                   statusVars, sessionId, state, chat, transport, calls,
                   events, hd, sideVars, lastError, interruptFlag>>

\* a "!!" message arrives while the session is running: markInterrupt(),
\* then stop()
Interrupt ==
    /\ isQueryRunning
    /\ interruptFlag' = markInterrupt(interruptFlag)
    /\ stop
    /\ UNCHANGED <<queueOnlyVars, isQueryRunning, abortController,
                   statusVars, sessionId, state, chat, transport, calls,
                   events, hd, sideVars, lastError>>

\* handleText, which awaited the run, goes on: after a normal return it
\* leaves its retry loop; after an error it runs its catch block (the
\* run of a retry is not followed here)
RunSettles ==
    /\ eng.pc \in {"returned", "threw"}
    /\ ~inFlight(calls)
    /\ hd.pc = "idle"
    /\ IF eng.pc = "returned"
       THEN /\ hd' = [hd EXCEPT !.pc = "succeeded"]
            /\ UNCHANGED <<state, chat, transport, sessionId, interruptFlag>>
       ELSE LET W == cleanup(World)
                e == eng.error
                c == consumeInterruptFlag(interruptFlag)
                kind == notice(e, c.wasInterrupt)
            IN IF canRetry(e, hd.attempt)
               THEN /\ sessionId' = Null
                    /\ HandlerWorld(
                         [reply(W, "retrying", 0, NoticeText, 0, 0, TRUE)
                            EXCEPT !.state = NewStreamingState])
                    /\ hd' = [hd EXCEPT !.pc = "retrying",
                                        !.errors = Append(@, e)]
                    /\ UNCHANGED interruptFlag
               ELSE /\ hd' = [hd EXCEPT !.pc = "failed",
                                        !.errors = Append(@, e)]
                    /\ HandlerWorld(
                         IF kind = "none" THEN W
                         ELSE reply(W, kind, 0, NoticeText, 0, 0, TRUE))
                    /\ sessionId' = IF kind = "crashed" THEN Null
                                    ELSE sessionId
                    /\ interruptFlag' = IF isCancellation(e) THEN c.flag
                                        ELSE interruptFlag
    /\ UNCHANGED <<queueVars, statusVars, eng, calls, events, sideVars,
                   lastError, stopReturn>>

NextSession ==
    \/ RunStart
    \/ \E b \in Blocks, gap \in Gaps, ok \in Outcomes : ReceiveEvent(b, gap, ok)
    \/ \E ok \in Outcomes : ThrowBlocked(ok)
    \/ \E ok \in Outcomes : StreamEnds(ok)
    \/ \E e \in ProviderErrors, ok \in Outcomes : StreamThrows(e, ok)
    \/ CallbackReturns
    \/ Stop
    \/ Interrupt
    \/ RunSettles

SpecSession == Init /\ [][NextSession]_vars

----------------------------------------------------------------------------
\* Properties of a run and its rendering

\* the text blocks among the handled blocks
TextEvents == {i \in 1..Len(events) : events[i].type = "text"}

RECURSIVE textIds(_, _)
\* the text blocks 1..i of segment seg, in the order they were handled
textIds(i, seg) ==
    IF i = 0 THEN <<>>
    ELSE IF events[i].type = "text" /\ events[i].seg = seg
         THEN Append(textIds(i - 1, seg), i)
         ELSE textIds(i - 1, seg)

RECURSIVE allTextIds(_)
\* the text blocks 1..i of the run, in the order they were handled
allTextIds(i) ==
    IF i = 0 THEN <<>>
    ELSE IF events[i].type = "text"
         THEN Append(allTextIds(i - 1), i)
         ELSE allTextIds(i - 1)

\* a is a prefix of b
IsPrefix(a, b) == Len(a) <= Len(b) /\ SubSeq(b, 1, Len(a)) = a

\* the chat shows the whole text made of the blocks ids: in one message,
\* or in the slices of a split segment
Shows(ids) ==
    \E h \in 1..Len(chat) :
        /\ chat[h].alive
        /\ chat[h].kind \in {"text", "chunk"}
        /\ chat[h].content.ids = ids
        /\ ~chat[h].content.cut
        /\ chat[h].kind = "chunk" =>
              \A g \in 1..Len(chat) :
                 (chat[g].kind = "chunk" /\ chat[g].content.ids = ids)
                    => chat[g].alive

\* i and j are text blocks with no text block between them
ConsecutiveTexts(i, j) ==
    /\ i \in TextEvents /\ j \in TextEvents /\ i < j
    /\ \A k \in TextEvents : ~(i < k /\ k < j)

\* the transport calls made for the "text" callbacks of the blocks in S
TransportCallsFor(S) ==
    {k \in 1..Len(transport) :
        \E i \in S : events[i].call # 0 /\ transport[k].cause = events[i].call}

\* C16: whenever a tool invocation occurs between two text events of a run
\* that returns, the text before and the text after it are finalized as two
\* segments with distinct ids and are rendered as two distinct messages,
\* never merged into one message.
C16_ToolSplitsSegments ==
    (eng.pc = "returned" /\ eng.failures = 0) =>
       \A i, j \in TextEvents :
          (i < j /\ \E k \in (i + 1)..(j - 1) : events[k].type = "tool_use")
             => /\ events[i].seg # events[j].seg
                /\ \E g, h \in 1..Len(chat) :
                      /\ g # h
                      /\ chat[g].alive /\ chat[h].alive
                      /\ \E p \in 1..Len(chat[g].content.ids) :
                            chat[g].content.ids[p] = i
                      /\ \E p \in 1..Len(chat[h].content.ids) :
                            chat[h].content.ids[p] = j
                /\ \A h \in 1..Len(chat) :
                      ~(/\ \E p \in 1..Len(chat[h].content.ids) :
                              chat[h].content.ids[p] = i
                        /\ \E p \in 1..Len(chat[h].content.ids) :
                              chat[h].content.ids[p] = j)

\* C17: when a text segment closes with non-empty text (a "segment_end"
\* callback is made for it), the chat shows that segment's complete text,
\* also when no "text" update was forwarded for the segment before.
C17_ClosedSegmentShown ==
    eng.failures = 0 =>
       \A c \in 1..Len(calls) :
          (calls[c].type = "segment_end" /\ calls[c].content.len > 0)
             => Shows(calls[c].content.ids)

\* C18 as stated: two text updates of one segment less than 500 ms apart
\* produce exactly one transport call, which carries the latest content
\* (the text up to the second update); and no edit replaces a message's
\* content with older text.
C18_OneEditWithLatest ==
    eng.failures = 0 =>
       /\ \A i, j \in TextEvents :
             (/\ ConsecutiveTexts(i, j)
              /\ events[i].seg = events[j].seg
              /\ events[j].at - events[i].at < 500)
                => /\ Cardinality(TransportCallsFor({i, j})) = 1
                   /\ \A k \in TransportCallsFor({i, j}) :
                         transport[k].content.ids = textIds(j, events[j].seg)
       /\ \A k, l \in 1..Len(transport) :
             (/\ k < l
              /\ transport[k].op \in {"reply", "edit"}
              /\ transport[l].op = "edit"
              /\ transport[k].msg = transport[l].msg)
                => IsPrefix(transport[k].content.ids, transport[l].content.ids)

\* C18, amended: of two text updates of one segment less than 500 ms apart
\* at most one produces a transport call; a transport call made for a text
\* update carries the segment text accumulated up to the update that
\* triggered it; and no edit replaces a message's content with older text.
C18_AtMostOneEdit ==
    eng.failures = 0 =>
       /\ \A i, j \in TextEvents :
             (/\ ConsecutiveTexts(i, j)
              /\ events[i].seg = events[j].seg
              /\ events[j].at - events[i].at < 500)
                => Cardinality(TransportCallsFor({i, j})) <= 1
       /\ \A i \in TextEvents :
             \A k \in TransportCallsFor({i}) :
                transport[k].content.ids = textIds(i, events[i].seg)
       /\ \A k, l \in 1..Len(transport) :
             (/\ k < l
              /\ transport[k].op \in {"reply", "edit"}
              /\ transport[l].op = "edit"
              /\ transport[k].msg = transport[l].msg)
                => IsPrefix(transport[k].content.ids, transport[l].content.ids)

\* a text update created the message, and the next one, less than 500 ms
\* later, was not sent; a later one edited the message
C18_Witness ==
    \E i, j \in TextEvents :
        /\ ConsecutiveTexts(i, j)
        /\ events[i].seg = events[j].seg
        /\ events[j].at - events[i].at < 500
        /\ events[i].call # 0 /\ events[j].call = 0
        /\ Cardinality(TransportCallsFor({i, j})) = 1
        /\ \E k \in 1..Len(transport) : transport[k].op = "edit"
        /\ eng.failures = 0

\* C19 as stated: a run that returns returns the in-order concatenation of
\* the text of every text event of the run.
C19_ReturnsAllText ==
    eng.pc = "returned" =>
       /\ eng.result.kind = "text"
       /\ eng.result.text.ids = allTextIds(Len(events))

\* C19, amended: a run that returns returns the in-order concatenation of
\* the text of every text event it handled, across all segments and
\* whatever was throttled, or the fixed text "No response from Claude."
\* when that concatenation is empty.
C19_ReturnsAllTextOrPlaceholder ==
    eng.pc = "returned" =>
       IF allTextIds(Len(events)) = <<>>
       THEN eng.result.kind = "placeholder"
       ELSE /\ eng.result.kind = "text"
            /\ eng.result.text.ids = allTextIds(Len(events))

\* a run returned the text of two segments, the first update of the second
\* segment having been throttled
C19_Witness ==
    /\ eng.pc = "returned"
    /\ eng.result.kind = "text"
    /\ Len(eng.result.text.ids) = 2
    /\ eng.currentSegmentId = 1
    /\ \E i \in TextEvents : events[i].seg = 1 /\ events[i].call = 0

\* C20: a denied tool invocation is never forwarded to the status callback
\* as a tool event, the run fails with the error that carries the denial
\* reason, and no later event of the run is forwarded.
C20_DeniedNotForwarded ==
    /\ \A c \in 1..Len(calls) : ~(calls[c].type = "tool" /\ calls[c].denied)
    /\ (eng.pending # NoThrow /\ eng.pc \in {"returned", "threw"})
          => eng.pc = "threw" /\ eng.error = eng.pending
    /\ \A i \in 1..Len(events) :
          (events[i].type = "tool_use" /\ events[i].tool = "denied")
             => i = Len(events)

\* the status callback invocations made for the handled block i
CallsOf(i) == events[i].from .. events[i].to

\* C21: within one run the status callback is invoked in the order of the
\* backend events that cause the invocations (the invocations of an event
\* follow those of the event before it, and are of the kinds that event
\* leads to), and no event is pulled, and no further invocation made, while
\* an invocation has not finished: at most the latest one is unfinished.
C21_CallbacksInEventOrder ==
    /\ [](/\ \A c \in 1..Len(calls) : ~calls[c].done => c = Len(calls)
          /\ \A i \in 1..Len(events) :
                /\ events[i].from =
                      (IF i = 1 THEN 1 ELSE events[i - 1].to + 1)
                /\ events[i].to <= Len(calls)
                /\ events[i].type = "thinking" =>
                      events[i].to = events[i].from
                /\ events[i].type = "result" =>
                      events[i].to < events[i].from
                /\ \A c \in CallsOf(i) :
                      CASE calls[c].type = "thinking" ->
                              events[i].type = "thinking"
                        [] calls[c].type = "tool" ->
                              events[i].type = "tool_use" /\ c = events[i].to
                        [] calls[c].type = "segment_end" ->
                              /\ events[i].type = "tool_use"
                              /\ c = events[i].from
                              /\ calls[c].seg = events[i].seg
                        [] calls[c].type = "text" ->
                              /\ events[i].type = "text"
                              /\ calls[c].content.ids =
                                    textIds(i, events[i].seg)
                        [] OTHER -> FALSE)
    /\ [][inFlight(calls) =>
            /\ events' = events
            /\ eng'.n = eng.n
            /\ Len(calls') = Len(calls)]_vars

\* two blocks were handled, each with a callback, and the callback of the
\* second has not finished
C21_Witness ==
    /\ Len(events) >= 2
    /\ events[1].to >= events[1].from
    /\ events[2].to >= events[2].from
    /\ inFlight(calls)
    /\ eng.pc = "streaming"

\* C22: stop() sets the stop flag, signals the abort handle and returns
\* true exactly when a run is in progress; otherwise it returns false and
\* changes nothing on the session; and a run starts with the flag cleared
\* and a new abort handle, whatever stop() did before.
C22_StopOnlyDuringRun ==
    /\ [][/\ ((\/ stopReturn' # stopReturn
               \/ (stopRequested' /\ ~stopRequested)
               \/ (eng'.aborted /\ ~eng.aborted))
              => IF isQueryRunning /\ abortController # Null
                 THEN /\ stopRequested' /\ eng'.aborted
                      /\ stopReturn' = "true"
                 ELSE /\ stopReturn' = "false"
                      /\ UNCHANGED <<stopRequested, eng, isQueryRunning,
                                     abortController, lastError,
                                     sessionId>>)
          /\ ((~isQueryRunning /\ isQueryRunning')
              => /\ ~stopRequested' /\ ~eng'.aborted
                 /\ abortController' # Null)]_vars
    /\ [](stopRequested => eng.aborted)

\* stop() returned false before the run started, and the run streams
\* unaffected
C22_Witness ==
    /\ stopReturn = "false"
    /\ eng.pc = "streaming"
    /\ eng.n = MaxEvents
    /\ ~stopRequested /\ ~eng.aborted

\* C23: a run cancelled by stop() during streaming ends with an
\* abort-shaped rejection, not with a normal result, and the cancellation
\* is not recorded as the session's lastError.
C23_StopRejectsWithAbort ==
    (stopRequested /\ eng.pc \in {"returned", "threw"})
       => /\ eng.pc = "threw"
          /\ isCancellation(eng.error)
          /\ ~lastError

\* the chat W shows "Query stopped."
StoppedShown(c) == \E h \in 1..Len(c) : c[h].kind = "stopped"

\* C24: when handleText learns how a cancelled run ended (a run that
\* stop() was called on and that ended without another error), it shows
\* "Query stopped." if and only if the cancellation came from an explicit stop and
\* not from a "!!" interrupt (markInterrupt followed by stop): never for an
\* interrupted run, always for an explicitly stopped one.
C24_StoppedShownIffExplicit ==
    [][(/\ hd.pc = "idle" /\ hd'.pc # "idle"
        /\ stopRequested
        /\ eng.pc = "returned" \/ isCancellation(eng.error))
          => (StoppedShown(chat') <=> ~interruptFlag)]_vars

\* the sum of the lengths of the text blocks 1..i
RECURSIVE textLen(_)
textLen(i) ==
    IF i = 0 THEN 0
    ELSE (IF events[i].type = "text" THEN events[i].len ELSE 0)
         + textLen(i - 1)

\* C25: the status callback never rejects: a failed transport call never
\* ends the run (a run that throws throws an error of the backend or of
\* the safety check), the run handles the further events as it would have,
\* and what it returns is what the handled events alone determine.
C25_TransportFailuresSwallowed ==
    /\ eng.error.origin # "transport"
    /\ (eng.pc # "idle") =>
          /\ eng.n = Len(events)
          /\ join(eng.responseParts).ids = allTextIds(Len(events))
    /\ (eng.pc = "returned") =>
          IF allTextIds(Len(events)) = <<>>
          THEN eng.result.kind = "placeholder"
          ELSE /\ eng.result.kind = "text"
               /\ eng.result.text.len = textLen(Len(events))

\* the ctx.reply of the first block's callback failed; two more blocks
\* were handled and the run returned its text
C25_Witness ==
    /\ eng.pc = "returned"
    /\ eng.failures > 0
    /\ Len(events) = MaxEvents
    /\ \E k \in 1..Len(transport) :
          /\ ~transport[k].ok /\ transport[k].op = "reply"
          /\ transport[k].cause \in CallsOf(1)
    /\ eng.result.kind = "text"

\* the transport calls made by the "done" invocation d
DoneCalls(d) == {k \in 1..Len(transport) : transport[k].cause = d}

\* the thinking and tool-status messages created in the chat
Ephemeral == {h \in 1..Len(chat) : chat[h].kind = "tool"}

\* C26: on "done" the adapter requests the deletion of every tracked
\* ephemeral message, once each; the tracked ones are exactly the thinking
\* and tool-status messages created during the run; and no text message is
\* deleted.
C26_DoneDeletesEphemeral ==
    \A d \in 1..Len(calls) :
       calls[d].type = "done" =>
          /\ \A k \in DoneCalls(d) : transport[k].op = "delete"
          /\ {transport[k].msg : k \in DoneCalls(d)} = Ephemeral
          /\ Cardinality(DoneCalls(d)) = Cardinality(Ephemeral)
          /\ {state.toolMessages[i] : i \in 1..Len(state.toolMessages)}
                = Ephemeral
          /\ \A k \in DoneCalls(d) :
                chat[transport[k].msg].kind \notin {"text", "chunk"}

\* a run with a thinking message, a tool message and a text message is
\* done: the first two are deleted, the text message is still there
C26_Witness ==
    /\ eng.pc = "returned"
    /\ Cardinality(Ephemeral) = 2
    /\ \A h \in Ephemeral : ~chat[h].alive
    /\ \E h \in 1..Len(chat) : chat[h].kind = "text" /\ chat[h].alive
    /\ calls[Len(calls)].type = "done"

\* A run whose backend may stay silent: the steps the program takes by
\* itself are taken when they can be; the backend's events, the end of its
\* stream and its errors are not required to happen.
FairnessSession ==
    /\ WF_vars(CallbackReturns)
    /\ WF_vars(\E ok \in Outcomes : ThrowBlocked(ok))
    /\ WF_vars(RunSettles)

SpecSessionFair == Init /\ [][NextSession]_vars /\ FairnessSession

\* C33: after stop() returned true during a run, the promise of that run
\* eventually settles, even if the backend produces no further event.
C33_StoppedRunSettles ==
    (stopReturn = "true" /\ eng.pc = "streaming" /\ eng.aborted)
       ~> (eng.pc \in {"returned", "threw"})

----------------------------------------------------------------------------
\* The steps of handleText.  An attempt is the call of
\* queryQueue.sendMessage; the handler sees of it the status callback
\* invocations it makes and how it ends.

\* the text of the latest update of the open segment
attemptText(big) ==
    [ids |-> <<hd.seg + 1>>, len |-> IF big THEN 5000 ELSE 30, amp |-> 0,
     cut |-> FALSE]

\* handleText reaches its retry loop: new StreamingState(), attempt = 0
HandleText ==
    /\ hd.pc = "idle"
    /\ hd' = [hd EXCEPT !.pc = "attempting"]
    /\ state' = NewStreamingState
    /\ UNCHANGED <<restVars, queueVars, statusVars, eng, sessionId, chat, transport,
                   calls, events>>

\* the run of the attempt receives its first event: the session id
AttemptSessionId ==
    /\ hd.pc = "attempting"
    /\ sessionId = Null
    /\ sessionId' = hd.attempt + 1
    /\ UNCHANGED <<queueVars, statusVars, eng, state, chat, transport, calls,
                   events, hd, restVars>>

\* the run of the attempt makes a "thinking" or "tool" status callback
AttemptTool ==
    /\ hd.pc = "attempting"
    /\ hd.n < MaxCallbacks
    /\ HandlerWorld(statusCallback(World, "tool", ToolText, 0, dateNow(now),
                                   Len(calls) + 1, TRUE))
    /\ calls' = Append(calls, [type |-> "tool", seg |-> 0,
                               content |-> ToolText, denied |-> FALSE,
                               done |-> TRUE])
    /\ hd' = [hd EXCEPT !.n = @ + 1]
    /\ UNCHANGED <<restVars, queueVars, statusVars, eng, sessionId, events>>

\* the run of the attempt makes a "text" status callback for its open
\* segment, more than 500 ms after the previous one
AttemptText(big) ==
    /\ hd.pc = "attempting"
    /\ hd.n < MaxCallbacks
    /\ big \/ hd.open <= 30
    /\ now' = now + 600
    /\ HandlerWorld(statusCallback(World, "text", attemptText(big), hd.seg,
                                   dateNow(now'), Len(calls) + 1, TRUE))
    /\ calls' = Append(calls, [type |-> "text", seg |-> hd.seg,
                               content |-> attemptText(big),
                               denied |-> FALSE,
                               done |-> TRUE])
    /\ hd' = [hd EXCEPT !.n = @ + 1, !.open = attemptText(big).len]
    /\ UNCHANGED <<restVars, queueVars, queuedAt, status, eng, sessionId, events>>

\* the run of the attempt closes its open segment
AttemptSegmentEnd ==
    /\ hd.pc = "attempting"
    /\ hd.n < MaxCallbacks
    /\ hd.open > 0
    /\ HandlerWorld(statusCallback(World, "segment_end",
                                   attemptText(hd.open > 30), hd.seg,
                                   dateNow(now), Len(calls) + 1, TRUE))
    /\ calls' = Append(calls, [type |-> "segment_end", seg |-> hd.seg,
                               content |-> attemptText(hd.open > 30),
                               denied |-> FALSE,
                               done |-> TRUE])
    /\ hd' = [hd EXCEPT !.n = @ + 1, !.seg = @ + 1, !.open = 0]
    /\ UNCHANGED <<restVars, queueVars, statusVars, eng, sessionId, events>>

\* the attempt succeeds: the run's "done" callback, then the break
AttemptSucceeds ==
    /\ hd.pc = "attempting"
    /\ hd.open = 0
    /\ HandlerWorld(statusCallback(World, "done", EmptyText, 0, dateNow(now),
                                   Len(calls) + 1, TRUE))
    /\ calls' = Append(calls, [type |-> "done", seg |-> 0,
                               content |-> EmptyText, denied |-> FALSE,
                               done |-> TRUE])
    /\ hd' = [hd EXCEPT !.pc = "succeeded"]
    /\ UNCHANGED <<restVars, queueVars, statusVars, eng, sessionId, events>>

\* the attempt fails with the error e: the catch block.  wasInterrupt is
\* what session.consumeInterruptFlag() returns.
AttemptFails(e, wasInterrupt) ==
    /\ hd.pc = "attempting"
    /\ e.origin = "admission" => hd.n = 0
    /\ LET W == cleanup(World)
       IN IF canRetry(e, hd.attempt)
          THEN /\ sessionId' = Null
               /\ HandlerWorld(
                    [reply(W, "retrying", 0, NoticeText, 0, 0, TRUE)
                       EXCEPT !.state = NewStreamingState])
               /\ hd' = [hd EXCEPT !.attempt = @ + 1, !.n = 0, !.seg = 0,
                                   !.open = 0,
                                   !.errors = Append(@, e),
                                   !.mark = Len(chat)]
          ELSE /\ hd' = [hd EXCEPT !.pc = "failed",
                                   !.errors = Append(@, e)]
               /\ HandlerWorld(
                    IF notice(e, wasInterrupt) = "none" THEN W
                    ELSE reply(W, notice(e, wasInterrupt), 0, NoticeText,
                               0, 0, TRUE))
               /\ sessionId' = IF notice(e, wasInterrupt) = "crashed"
                               THEN Null ELSE sessionId
    /\ UNCHANGED <<restVars, queueVars, statusVars, eng, calls, events>>

NextHandler ==
    \/ HandleText
    \/ AttemptSessionId
    \/ AttemptTool
    \/ \E big \in BOOLEAN : AttemptText(big)
    \/ AttemptSegmentEnd
    \/ AttemptSucceeds
    \/ \E e \in AttemptErrors, wasInterrupt \in BOOLEAN :
          AttemptFails(e, wasInterrupt)

SpecHandler == Init /\ [][NextHandler]_vars

\* the messages the status callback created during the first attempt
FirstAttemptMessages ==
    {h \in 1..hd.mark : chat[h].kind \in {"tool", "text", "chunk"}}

\* C13: when the first attempt failed with a crash signature and the retry
\* is made, every chat message created by the crashed attempt's status
\* callback (thinking/tool messages, text-segment messages, and the
\* messages created by splitting an oversized segment) has been deleted
\* before the retry creates its first message.
C13_CrashedAttemptRolledBack ==
    hd.attempt >= 1 => \A h \in FirstAttemptMessages : ~chat[h].alive

\* C14: the crash retry is bounded: a request is attempted at most twice;
\* if the first attempt and the retry both fail with a crash signature (an
\* "exited with code" error that is not a cancellation), no third attempt
\* is started, the user is told that the backend crashed, and sessionId is
\* null afterwards.
C14_RetryBounded ==
    /\ hd.attempt <= 1
    /\ Len(hd.errors) <= 2
    /\ (/\ Len(hd.errors) = 2
        /\ \A k \in 1..2 : hd.errors[k].crash /\ ~hd.errors[k].cancel)
          => /\ hd.pc = "failed"
             /\ chat[Len(chat)].kind = "crashed"
             /\ sessionId = Null

\* the backend crashed in both attempts, each after it had told its
\* session id
C14_Witness ==
    /\ hd.pc = "failed"
    /\ Len(hd.errors) = 2
    /\ hd.errors[1] = CrashError /\ hd.errors[2] = CrashError
    /\ hd.n > 0
    /\ sessionId = Null

\* C15: only a crash is retried: when a retry is made, the first attempt
\* ended with a backend crash, not with a cancellation, a tool invocation
\* blocked by the safety check or a rejection by admission control,
\* whatever text the error carries.
C15_OnlyCrashRetried ==
    hd.attempt >= 1 => hd.errors[1].origin = "crash"

\* the transport calls made by the status callback invocation c, in order
CausedBy(c) == SelectSeq(transport, LAMBDA t : t.cause = c)

\* the sum of the lengths of the contents of the calls T[k..]
RECURSIVE lengthFrom(_, _)
lengthFrom(T, k) ==
    IF k > Len(T) THEN 0 ELSE T[k].content.len + lengthFrom(T, k + 1)

C36_RetryNotRejected ==
    (hd.attempt = 1 /\ Len(hd.errors) = 2) =>
       hd.errors[2].origin # "admission"

----------------------------------------------------------------------------
\* The steps of the rate limiter. Buckets unused for an hour are removed by
\* a timer; the clock modelled stays far below that.

\* the sum of the lengths of the logs of allowed requests
RECURSIVE allowedCount(_)
allowedCount(u) ==
    IF u = 0 THEN 0 ELSE Len(allowed[u]) + allowedCount(u - 1)

\* time passes
Advance ==
    /\ clock < MaxTicks * Step
    /\ clock' = clock + Step
    /\ UNCHANGED <<buckets, allowed, checked>>
    /\ UNCHANGED <<queueVars, statusVars, runVars, hd, lastError, stopReturn,
                   interruptFlag, pd, procVars>>

\* rateLimiter.check(userId)
Check(userId) ==
    /\ allowedCount(MaxUsers) < MaxChecks
    /\ LET c == check(buckets, userId, clock)
       IN /\ buckets' = c.buckets
          /\ checked' = [userId |-> userId, allowed |-> c.allowed,
                         retryAfter |-> c.retryAfter]
          /\ allowed' = IF c.allowed
                        THEN [allowed EXCEPT ![userId] = Append(@, clock)]
                        ELSE allowed
    /\ UNCHANGED clock
    /\ UNCHANGED <<queueVars, statusVars, runVars, hd, lastError, stopReturn,
                   interruptFlag, pd, procVars>>

NextRate ==
    \/ Advance
    \/ \E userId \in Users : Check(userId)

SpecRate == Init /\ [][NextRate]_vars

\* C28: with the defaults, a user is allowed at most RATE_LIMIT_REQUESTS
\* requests within any interval of RATE_LIMIT_WINDOW seconds (of any
\* RATE_LIMIT_REQUESTS + 1 allowed requests of a user, the last is at least a
\* window after the first), and a check for one user leaves the buckets of
\* the other users as they are.
C28_AtMostPerWindow ==
    /\ [](\A u \in Users :
            \A i \in 1..Len(allowed[u]) :
              i + RATE_LIMIT_REQUESTS <= Len(allowed[u])
                => allowed[u][i + RATE_LIMIT_REQUESTS] - allowed[u][i]
                     >= RATE_LIMIT_WINDOW * 1000)
    /\ [][\A u \in Users :
             buckets'[u] # buckets[u] => checked'.userId = u]_vars

----------------------------------------------------------------------------
\* The steps of handleText for the text messages of one chat.  The runner
\* handles updates concurrently: a handleText call runs until its next
\* await.  The rate limit check passes and the crash retry of a message is
\* not told apart from its first attempt.

\* what these steps leave alone
pendingFrame ==
    <<processing, st, err, queuedPos, started, nextId, immediates, lastPN,
      clearReturn, abortController, stopRequested, statusVars, runVars, hd,
      rateVars, procVars, lastError, stopReturn, interruptFlag>>

\* session.sendMessageStreaming(m) is called: the run is counted and
\* isQueryRunning is set before the first await
startRun(P, m, count) ==
    [P |-> [P EXCEPT !.running = @ \cup {m}, !.sent = Append(@, m)],
     count |-> countAtRunStart(count)]

\* queryQueue.sendMessage for the message m, called by the handler h:
\* the run starts at once, or the request is rejected (queue full), or it
\* is queued
sendMessage(P, h, m, q, count) ==
    IF canExecuteImmediately(count)
    THEN [P |-> startRun(P, m, count).P, queue |-> q,
          count |-> startRun(P, m, count).count, running |-> TRUE]
    ELSE IF isFull(q)
    THEN [P |-> [P EXCEPT !.failed = @ \cup {m},
                         !.pc[h] = IF h = m THEN "loop" ELSE "done"],
          queue |-> q, count |-> count, running |-> isQueryRunning]
    ELSE [P |-> P, queue |-> push(q, m), count |-> count,
          running |-> isQueryRunning]

\* the next text message arrives: handleText up to "if (session.isRunning)"
\* and on to its next await
Arrive ==
    /\ pd.arrived < MaxMessages
    /\ LET m == pd.arrived + 1
           P == [pd EXCEPT !.arrived = m]
       IN IF isQueryRunning
          THEN /\ pd' = [P EXCEPT
                           !.pendingMessages = addPendingMessage(@, m),
                           !.wasPending = @ \cup {m},
                           !.pc[m] = "queued"]
               /\ UNCHANGED <<queue, activeQueryCount, isQueryRunning>>
          ELSE LET r == sendMessage([P EXCEPT !.pc[m] = "sending"], m, m,
                                    queue, activeQueryCount)
               IN /\ pd' = r.P
                  /\ queue' = r.queue
                  /\ activeQueryCount' = r.count
                  /\ isQueryRunning' = r.running
    /\ UNCHANGED pendingFrame

\* the handler that awaits the run of m
awaiting(m) ==
    CHOOSE h \in Messages :
        \/ h = m /\ pd.pc[h] = "sending"
        \/ pd.cur[h] = m /\ pd.pc[h] = "autosending"

\* the run of m ends (the finally block, then processNext for the queue);
\* the handler that awaited it goes on: to the loop over the pending
\* messages, or, when an auto-processed message failed, to its end
RunEnds(m, ok) ==
    /\ m \in pd.running
    /\ LET h == awaiting(m)
           P == [pd EXCEPT
                   !.running = @ \ {m},
                   !.failed = IF ok THEN @ ELSE @ \cup {m},
                   !.pc[h] = IF h = m \/ ok THEN "loop" ELSE "done"]
           count == countAtRunEnd(activeQueryCount)
       IN IF cannotRun(queue, count)
          THEN /\ pd' = P
               /\ activeQueryCount' = count
               /\ isQueryRunning' = FALSE
               /\ UNCHANGED queue
          ELSE /\ pd' = startRun(P, shift(queue).query, count).P
               /\ activeQueryCount' =
                     startRun(P, shift(queue).query, count).count
               /\ isQueryRunning' = TRUE
               /\ queue' = shift(queue).rest
    /\ UNCHANGED pendingFrame

\* while (session.pendingCount > 0): the first pending message is removed
\* from the list and announced (await ctx.reply)
TakePending(h) ==
    /\ pd.pc[h] = "loop"
    /\ pd' = IF pd.pendingMessages = <<>>
             THEN [pd EXCEPT !.pc[h] = "done"]
             ELSE [pd EXCEPT
                     !.pendingMessages = removePendingMessage(@).rest,
                     !.cur[h] = removePendingMessage(
                                   pd.pendingMessages).text,
                     !.pc[h] = "announcing"]
    /\ UNCHANGED <<queue, activeQueryCount, isQueryRunning>>
    /\ UNCHANGED pendingFrame

\* the announcement was sent: queryQueue.sendMessage(pendingText, ...)
SendPending(h) ==
    /\ pd.pc[h] = "announcing"
    /\ LET r == sendMessage([pd EXCEPT !.pc[h] = "autosending"], h,
                            pd.cur[h], queue, activeQueryCount)
       IN /\ pd' = r.P
          /\ queue' = r.queue
          /\ activeQueryCount' = r.count
          /\ isQueryRunning' = r.running
    /\ UNCHANGED pendingFrame

NextPending ==
    \/ Arrive
    \/ \E m \in Messages, ok \in BOOLEAN : RunEnds(m, ok)
    \/ \E h \in Messages : TakePending(h)
    \/ \E h \in Messages : SendPending(h)

SpecPending == Init /\ [][NextPending]_vars

\* the place of the message m in the order of the started runs (0: none)
SentAt(m) ==
    IF \E i \in 1..Len(pd.sent) : pd.sent[i] = m
    THEN CHOOSE i \in 1..Len(pd.sent) : pd.sent[i] = m
    ELSE 0

\* C27: a message that arrives while the session is busy is put on the
\* pending list and is not run concurrently with another run; the pending
\* messages are sent to the backend one at a time, in the order of their
\* arrival, each at most once; and none is lost: it is on the list, being
\* sent by a handler, or was sent or rejected.
C27_PendingInOrder ==
    /\ \A m \in pd.wasPending :
          m \in pd.running => pd.running = {m}
    /\ \A m, n \in pd.wasPending :
          (m < n /\ SentAt(n) > 0) => (SentAt(m) > 0 /\ SentAt(m) < SentAt(n))
    /\ \A i, j \in 1..Len(pd.sent) : i # j => pd.sent[i] # pd.sent[j]
    /\ \A m \in pd.wasPending :
          \/ \E i \in 1..Len(pd.pendingMessages) : pd.pendingMessages[i] = m
          \/ \E h \in Messages :
                pd.cur[h] = m /\ pd.pc[h] \in {"announcing", "autosending"}
          \/ SentAt(m) > 0
          \/ m \in pd.failed
          \/ \E i \in 1..Len(queue) : queue[i] = m

----------------------------------------------------------------------------
\* Calls of sendMessageStreaming that overlap on the one session object

\* the run i is inside its try block
inTry(i) == runPc[i] \in {"streaming", "completed"}

\* the promise of the run i has settled
settled(pc) == pc \in {"returned", "threw", "handled"}

overlapFrame ==
    <<queueOnlyVars, statusVars, eng, state, chat, transport, calls, events,
      hd, rateVars, pd, lock, dedup, lastError, interruptFlag>>

\* (variant) the id of every event is stored
captureAlways(current, id) == IF id # Null THEN id ELSE current

\* if (!this.sessionId && event.session_id) this.sessionId = event.session_id
capture(current, id) == IF current = Null /\ id # Null THEN id ELSE current

\* handleText finds session.isRunning false and the call reaches
\* sendMessageStreaming: the statements before the try block
CallStarts(i) ==
    /\ runPc[i] = "idle"
    /\ ~isQueryRunning
    /\ abortController' = i
    /\ isQueryRunning' = TRUE
    /\ stopRequested' = FALSE
    /\ runPc' = [runPc EXCEPT ![i] = "streaming"]
    /\ sessionId' = IF sessionId # Null THEN sessionId ELSE Null
    /\ handle' = [handle EXCEPT !.resumed[i] = sessionId # Null,
                                !.stale[i] = interruptFlag]
    /\ UNCHANGED <<overlapFrame, stopReturn>>

\* an event with the session id id (or none) is pulled and stop() was not
\* called: the capture of the session id, saveSession()
CallEvent(i, id) ==
    /\ inTry(i)
    /\ ~stopRequested
    /\ sessionId' = capture(sessionId, id)
    /\ handle' = [handle EXCEPT !.captures[i] =
                     IF sessionId' # sessionId THEN @ + 1 ELSE @]
    /\ UNCHANGED <<overlapFrame, stopReturn, isQueryRunning, abortController,
                   stopRequested, runPc>>

\* session.kill(), called by handleText when it switches the worktree
\* (before its busy check) and in its catch block after a crashed run,
\* after the awaited deletion of that run's messages
Kill ==
    /\ handle.kills < MaxKills
    /\ sessionId' = Null
    /\ handle' = [handle EXCEPT !.kills = @ + 1]
    /\ UNCHANGED <<overlapFrame, stopReturn, isQueryRunning, abortController,
                   stopRequested, runPc>>

\* the "result" event: queryCompleted = true
CallCompletes(i) ==
    /\ runPc[i] = "streaming"
    /\ ~stopRequested
    /\ runPc' = [runPc EXCEPT ![i] = "completed"]
    /\ UNCHANGED <<overlapFrame, stopReturn, isQueryRunning, abortController,
                   stopRequested, sessionId, handle>>

\* the loop is left, by the end of the stream, by the break after stop()
\* or by an error e of the stream or of a safety check: the catch block
\* and the finally block; after them the run awaits its last status
\* callbacks, or its promise is rejected
CallLeavesTry(i, e) ==
    /\ inTry(i)
    /\ Finally
    /\ runPc' = [runPc EXCEPT ![i] =
                   IF e = NoThrow \/
                      suppressed(e, [queryCompleted |->
                                       runPc[i] = "completed"],
                                 stopRequested)
                   THEN "tail" ELSE "threw"]
    /\ handle' = [handle EXCEPT !.error[i] =
                     IF runPc'[i] = "threw" THEN e ELSE @]
    /\ UNCHANGED <<overlapFrame, stopReturn, stopRequested, sessionId>>

\* the awaited "segment_end" and "done" callbacks have returned: the return
CallReturns(i) ==
    /\ runPc[i] = "tail"
    /\ runPc' = [runPc EXCEPT ![i] = "returned"]
    /\ UNCHANGED <<overlapFrame, stopReturn, isQueryRunning, abortController,
                   stopRequested, sessionId, handle>>

\* the catch block of handleText for the error of the run i (the run of
\* a retry is another call)
CallHandled(i) ==
    /\ runPc[i] = "threw"
    /\ LET e == handle.error[i]
           c == consumeInterruptFlag(interruptFlag)
       IN /\ handle' = [handle EXCEPT !.notice[i] =
                           IF canRetry(e, 0) THEN "retrying"
                           ELSE notice(e, c.wasInterrupt)]
          /\ interruptFlag' = IF ~canRetry(e, 0) /\ isCancellation(e)
                              THEN c.flag ELSE interruptFlag
    /\ runPc' = [runPc EXCEPT ![i] = "handled"]
    /\ UNCHANGED <<queueOnlyVars, statusVars, runVars, hd, rateVars, pd,
                   lock, dedup, lastError, stopReturn, isQueryRunning,
                   abortController, stopRequested>>

\* session.stop(), called by a stop request
CallStop ==
    /\ stop
    /\ handle' = [handle EXCEPT !.stopped =
                     [i \in Runs |-> @[i] \/ (inTry(i) /\ stopReturn' = "true")]]
    /\ UNCHANGED <<queueOnlyVars, isQueryRunning, abortController,
                   statusVars, sessionId, state, chat, transport, calls,
                   events, hd, rateVars, pd, runPc, lock, dedup, lastError,
                   interruptFlag>>

\* a "!!" message arrives while the session is running: markInterrupt(),
\* then stop()
CallInterrupt ==
    /\ isQueryRunning
    /\ interruptFlag' = markInterrupt(interruptFlag)
    /\ stop
    /\ handle' = [handle EXCEPT !.marked =
                     [i \in Runs |-> @[i] \/ inTry(i)]]
    /\ UNCHANGED <<queueOnlyVars, isQueryRunning, abortController,
                   statusVars, sessionId, state, chat, transport, calls,
                   events, hd, rateVars, pd, runPc, lock, dedup, lastError>>

NextOverlap ==
    \/ \E i \in Runs : CallStarts(i)
    \/ \E i \in Runs, id \in SessionIds \cup {Null} : CallEvent(i, id)
    \/ \E i \in Runs : CallCompletes(i)
    \/ Kill
    \/ \E i \in Runs, e \in {NoThrow, BlockedError(FALSE, FALSE)}
                              \cup ProviderErrors : CallLeavesTry(i, e)
    \/ \E i \in Runs : CallReturns(i)
    \/ \E i \in Runs : CallHandled(i)
    \/ CallStop
    \/ CallInterrupt

SpecOverlap == Init /\ [][NextOverlap]_vars

\* C32: whenever sendMessageStreaming settles (by success, a backend error,
\* a safety block or after stop()), isQueryRunning is false and
\* abortController is null, so that a following stop() returns false.
C32_SettledNotRunning ==
    [][\A i \in Runs :
          (~settled(runPc[i]) /\ settled(runPc'[i])) =>
             (/\ ~isQueryRunning'
              /\ abortController' = Null
              /\ ~stopInEffect(isQueryRunning', abortController'))]_vars

\* C34: within one run sessionId changes at most once, from null to the id
\* of the first event that has one; later events never overwrite it, and a
\* run that resumes an existing session id does not change it.
C34_HandleCapturedOnce ==
    \A i \in Runs :
       /\ handle.captures[i] <= 1
       /\ handle.resumed[i] => handle.captures[i] = 0

\* C35: the flag set by a "!!" message affects only the run that was
\* active when it was set: when that run ended without an abort-shaped
\* error, so that the flag is still set when a later run starts, and the
\* later run is cancelled by an explicit stop (and no "!!" message, and
\* no other failure), the handler of the later run sends "Query stopped.".
C35_StaleFlagIgnored ==
    \A i \in Runs :
       (/\ handle.stale[i]
        /\ handle.stopped[i]
        /\ ~handle.marked[i]
        /\ handle.error[i] = NoThrow
        /\ runPc[i] = "returned")
          => handle.notice[i] = "stopped"

----------------------------------------------------------------------------
\* The steps of acquirePidLock in the processes that start on one lock
\* path.  Each file system call is a step of its own: the calls of
\* different processes interleave.

otherVars ==
    <<queueVars, statusVars, runVars, hd, rateVars, pd, runPc, handle,
      lastError, stopReturn, interruptFlag>>

\* if (existsSync(lockPath))
Exists(p) ==
    /\ lock.pc[p] = "new"
    /\ lock' = [lock EXCEPT !.pc[p] = IF lock.file # NoFile THEN "read"
                                      ELSE "write"]
    /\ UNCHANGED <<otherVars, dedup>>

\* readFileSync and parseInt: a pid to test, or (the file is gone: the
\* read throws) on to the write
Read(p) ==
    /\ lock.pc[p] = "read"
    /\ lock' = IF lock.file \in Procs
               THEN [lock EXCEPT !.pc[p] = "test", !.existingPid[p] = lock.file]
               ELSE [lock EXCEPT !.pc[p] = "write"]
    /\ UNCHANGED <<otherVars, dedup>>

\* process.kill(pid, 0) succeeds while the process pid exists
isProcessAlive(pid) == lock.pc[pid] \notin {"new", "dead"}

\* if (isProcessAlive(existingPid)) return { acquired: false, existingPid }
Test(p) ==
    /\ lock.pc[p] = "test"
    /\ lock' = [lock EXCEPT !.pc[p] =
                   IF isProcessAlive(lock.existingPid[p]) THEN "refused"
                   ELSE "write"]
    /\ UNCHANGED <<otherVars, dedup>>

\* writeFileSync(lockPath, String(currentPid)); return { acquired: true }
Write(p) ==
    /\ lock.pc[p] = "write"
    /\ lock' = [lock EXCEPT !.file = p, !.pc[p] = "acquired"]
    /\ UNCHANGED <<otherVars, dedup>>

\* a process that holds the lock is killed and leaves the file behind
Dies(p) ==
    /\ lock.pc[p] = "acquired"
    /\ lock' = [lock EXCEPT !.pc[p] = "dead"]
    /\ UNCHANGED <<otherVars, dedup>>

\* releasePidLock at shutdown: the file is removed if it holds the
\* process's own pid
Releases(p) ==
    /\ lock.pc[p] = "acquired"
    /\ lock' = [lock EXCEPT !.file = IF @ = p THEN NoFile ELSE @,
                            !.pc[p] = "dead"]
    /\ UNCHANGED <<otherVars, dedup>>

NextLock ==
    \/ \E p \in Procs : Exists(p)
    \/ \E p \in Procs : Read(p)
    \/ \E p \in Procs : Test(p)
    \/ \E p \in Procs : Write(p)
    \/ \E p \in Procs : Dies(p)
    \/ \E p \in Procs : Releases(p)

SpecLock == Init /\ [][NextLock]_vars

\* C38: of the processes that call acquirePidLock on one lock path, at most
\* one obtains acquired = true while another that obtained it is alive,
\* under every interleaving of their existence-check, read and write steps.
C38_OneHolder ==
    Cardinality({p \in Procs : lock.pc[p] = "acquired"}) <= 1

----------------------------------------------------------------------------
\* The steps of the update-deduplication middleware.  It has no await
\* before it calls next(): each update is one step.

\* Telegram delivers an update with the id updateId
Deliver(updateId) ==
    /\ Len(dedup.log) < MaxDeliveries
    /\ dedup' = middleware(dedup, updateId)
    /\ UNCHANGED <<otherVars, lock>>

NextDedup == \E updateId \in UpdateIds : Deliver(updateId)

SpecDedup == Init /\ [][NextDedup]_vars

\* the ids delivered between the deliveries i and j, other than id
Between(i, j, id) ==
    {dedup.log[k].id : k \in {k \in 1..Len(dedup.log) : i < k /\ k < j}}
       \ {id}

\* C39: an update id is passed on to the handlers at most once as long as
\* fewer than DEDUP_WINDOW newer distinct update ids were seen since it was
\* passed; processedUpdateIds never holds more than DEDUP_WINDOW ids and
\* always equals the set of the ids in updateIdQueue.
C39_PassedOnceWithinWindow ==
    /\ \A i, j \in 1..Len(dedup.log) :
          (/\ i < j
           /\ dedup.log[i].id = dedup.log[j].id
           /\ dedup.log[i].passed
           /\ dedup.log[j].passed)
             => Cardinality(Between(i, j, dedup.log[i].id)) >= DEDUP_WINDOW
    /\ Cardinality(dedup.processedUpdateIds) <= DEDUP_WINDOW
    /\ dedup.processedUpdateIds =
          {dedup.updateIdQueue[k] : k \in 1..Len(dedup.updateIdQueue)}
    /\ Len(dedup.updateIdQueue) = Cardinality(dedup.processedUpdateIds)

\* an id was skipped as a duplicate, and an id was passed on a second
\* time after DEDUP_WINDOW newer ids had pushed it out of the window
C39_Witness ==
    /\ \E j \in 1..Len(dedup.log) : ~dedup.log[j].passed
    /\ \E i, j \in 1..Len(dedup.log) :
          /\ i < j
          /\ dedup.log[i].id = dedup.log[j].id
          /\ dedup.log[i].passed /\ dedup.log[j].passed
    /\ Cardinality(dedup.processedUpdateIds) = DEDUP_WINDOW

====
